---- MODULE Spec2Model ----
(***************************************************************************)
(* Match-processing / aggregation pipeline of rift-rewind, for one owner   *)
(* (puuid):                                                                *)
(*   check_user_status      -> user-processing queue                       *)
(*   process_user_matches   -> manifest, per-match queue, counter row      *)
(*   process_match          -> match cache, per-owner record, counter, gate*)
(*   aggregate_user         -> aggregated.json, status complete            *)
(*   chat -> user-processing queue (puuid only)                            *)
(* Every lambda invocation is a record in a bag; one action is one call of *)
(* the invocation to S3, DynamoDB, SQS or Lambda, together with the calls  *)
(* before it that touch nothing of this state (Secrets Manager, the GSI    *)
(* query, the Riot API); a call that fails is an action of its own.        *)
(***************************************************************************)
EXTENDS Bags, FiniteSets, Integers, Sequences, TLC

\* ------------------------------------------------------------------ bounds
MaxMatches   == 2   \* length of the owner's upstream match list
MaxPolls     == 1   \* check_user_status requests made before an aggregate exists
MaxRepolls   == 1   \* check_user_status requests made once an aggregate exists
MaxRedeliver == 1   \* extra deliveries of a per-match message (at-least-once)
MaxDirect    == 1   \* direct invocations of aggregate_user
MaxFailures  == 1   \* failing calls to an external service
MaxAbsent    == 1   \* upstream matches that do not list the owner
MaxInFlight  == 2   \* lambda invocations running at the same time
MaxRetries   == 2   \* largest max_retries given to make_request_with_retry
MaxList      == 3   \* longest match_data_list given to MatchDataAggregator
MaxTotal     == 12  \* largest total given to _calculate_per_minute
MaxDuration  == 32  \* largest duration_seconds given to _calculate_per_minute
MaxListing   == 201 \* longest upstream list given to the listing loop
MaxRequests  == 2   \* requests made to the on-demand aggregator for one summoner
MaxAsks      == 1   \* chat and generate_insights requests
MaxDispatches == 1  \* deliveries of the user-processing messages of check_user_status

\* ------------------------------------------------------------------ state
VARIABLES
  upstream,      \* match ids the Riot API lists for the owner
  absent,        \* upstream matches whose participants lack the owner
  aggregate_function_name, \* AGGREGATE_USER_FUNCTION_NAME of process_match
  userQueue,     \* user-processing queue: number of messages
  bareMessages,  \* those of them that carry the puuid only
  matchQueue,    \* match-processing queue: match id -> number of messages
  aggQueue,      \* pending asynchronous invocations of aggregate_user
  matchCache,    \* S3 matches/{match_id}.json that exist
  matchIndex,    \* DynamoDB match index table: match ids present
  details,       \* S3 users/{puuid}/match-details/{match_id}.json
  manifest,      \* S3 users/{puuid}/matches.json
  aggregated,    \* S3 users/{puuid}/aggregated.json
  row,           \* DynamoDB user insights item of the owner
  polls,         \* bag of check_user_status requests
  asks,          \* bag of chat requests
  disp,          \* bag of process_user_matches invocations
  procs,         \* bag of process_match invocations
  aggs,          \* bag of aggregate_user invocations
  lastPoll,      \* answer of the latest check_user_status request
  lastAsk,       \* status code of the latest chat answer
  pollsLeft,     \* check_user_status requests still to come before the
                 \*   aggregator is invoked
  repollsLeft,   \* check_user_status requests still to come after that
  asksLeft,      \* chat and generate_insights requests still to come
  dispatchesLeft, \* deliveries of a user-processing message with all its
                 \*   fields still to come
  dispatched,    \* history: user-processing messages enqueued
  dups,          \* history: extra deliveries made by the queue
  directs,       \* history: direct invocations of aggregate_user
  fails,         \* history: failed external calls
  okProcessed,   \* history: match ids whose processing advanced the counter
  readbacks,     \* history: processed_count values read back, in order
  gateSeen,      \* history: a process_match read back count >= total > 0
  checkSeen,     \* history: aggregate_user read count >= total > 0 on the item
  earlyConsume,  \* history: a per-match message was consumed before the
                 \*          dispatcher wrote the counter row
  rq_pc,         \* make_request_with_retry: "off", "loop", "returned", "raised"
  responses,     \* status codes request_func returns, call after call
  retry_after,   \* Retry-After header of the responses (seconds), if any
  max_retries,   \* argument max_retries
  retry_delay_ms,\* argument retry_delay_ms
  retry_count,   \* local retry_count
  calls,         \* history: calls of request_func made
  sleeps,        \* history: time.sleep delays, in milliseconds, in order
  response,      \* status code of the response returned (0: none)
  messages,      \* history: error messages logged or raised to the caller
  bucket,        \* DataStore: S3 key -> body of the object, if any
  last_get,      \* DataStore: the latest get_..._data call and its result
  puts,          \* history: resource -> the latest value given to set_..._data
  agg_pc,        \* MatchDataAggregator: "off", "new", "done"
  data_list,     \* self.match_data_list: what each match says of the owner
  aggregated_data, \* self.aggregated_data
  pm_pc,         \* _calculate_per_minute: "off", "new", "done"
  total,         \* argument total
  duration_seconds, \* argument duration_seconds
  per_minute,    \* the value returned, in hundredths
  list_pc,       \* listing loop: "off", "loop", "listed", "failed"
  listing,       \* the list of match ids the upstream holds for the owner
  start,         \* local start
  all_match_ids, \* local all_match_ids
  pages,         \* history: (start, count) of the get_matches calls, in order
  match_object,  \* S3 matches/{match_id}.json of the match being fetched
  client_params, \* keyword parameters RiotAPIClient.__init__ accepts
  reqs           \* on-demand aggregator: request -> its position and answer

vars == << upstream, absent, aggregate_function_name, userQueue,
           bareMessages, matchQueue, aggQueue, matchCache, matchIndex,
           details, manifest, aggregated, row, polls, asks, disp, procs,
           aggs, lastPoll, lastAsk, pollsLeft, repollsLeft, asksLeft,
           dispatchesLeft, dispatched, dups, directs, fails, okProcessed,
           readbacks, gateSeen, checkSeen, earlyConsume, rq_pc, responses,
           retry_after, max_retries, retry_delay_ms, retry_count, calls,
           sleeps, response, messages, bucket, last_get, puts, agg_pc,
           data_list, aggregated_data, pm_pc, total, duration_seconds,
           per_minute, list_pc, listing, start, all_match_ids, pages,
           match_object, client_params, reqs >>

\* the state of the pipeline
pipelineVars ==
  << upstream, absent, aggregate_function_name, userQueue, bareMessages,
     matchQueue, aggQueue, matchCache, matchIndex, details, manifest,
     aggregated, row, polls, asks, disp, procs, aggs, lastPoll, lastAsk,
     pollsLeft, repollsLeft, asksLeft, dispatchesLeft, dispatched, dups,
     directs, fails, okProcessed, readbacks, gateSeen, checkSeen,
     earlyConsume >>

\* the state of one call of make_request_with_retry
retryVars == << rq_pc, responses, retry_after, max_retries, retry_delay_ms,
                retry_count, calls, sleeps, response, messages >>

\* the state of the DataStore
storeVars == << bucket, last_get, puts >>

\* the state of one MatchDataAggregator
foldVars == << agg_pc, data_list, aggregated_data >>

\* the state of one call of _calculate_per_minute
minuteVars == << pm_pc, total, duration_seconds, per_minute >>

\* the state of the listing loop of process_user_matches
listingVars == << list_pc, listing, start, all_match_ids, pages >>

\* the state of the requests of the on-demand aggregator
demandVars == << client_params, reqs >>

\* the state of the handler parts followed on their own
handlerVars == << listingVars, match_object, demandVars >>

\* the state of the library functions followed on their own
libraryVars == << retryVars, storeVars, foldVars, minuteVars, handlerVars >>

Matches == 1..MaxMatches

\* an attribute that the DynamoDB item does not carry
Absent == -1

\* int(item.get(attr, {}).get('N', 0))
AttrN(x) == IF x = Absent THEN 0 ELSE x

Prefix(k) == [i \in 1..k |-> i]

RECURSIVE Pow2(_)
Pow2(n) == IF n = 0 THEN 1 ELSE 2 * Pow2(n - 1)

\* kills of the owner in match m, as the upstream payload reports them
MatchKills(m) == Pow2(m - 1)

RECURSIVE SumKills(_)
SumKills(list) ==
  IF list = << >> THEN 0 ELSE MatchKills(Head(list)) + SumKills(Tail(list))

Contains(list, x) == \E i \in 1..Len(list) : list[i] = x

\* "if x not in list: list.append(x)"
AppendIfMissing(list, x) == IF Contains(list, x) THEN list ELSE Append(list, x)

Put(B, e) == B (+) SetToBag({e})
Take(B, e) == B (-) SetToBag({e})
Replace(B, old, new) == Put(Take(B, old), new)

\* ------------------------------------------------------------ stored objects
NoManifest == [exists |-> FALSE, match_ids |-> << >>,
               processed_match_ids |-> << >>, status |-> "none"]

NoAggregate == [exists |-> FALSE, match_count |-> 0, kills |-> 0]

NoRow == [exists |-> FALSE, status |-> "none", total_matches |-> Absent,
          processed_count |-> Absent, match_count |-> Absent]


\* ------------------------------------------------------------- invocations
Running(B, pcs) == { x \in BagToSet(B) : x.pc \in pcs }

\* invocations that have not returned yet
Live(B) == BagCardinality([x \in { y \in BagToSet(B) : y.pc # "done" } |-> B[x]])

InFlight ==
  BagCardinality(polls) + BagCardinality(asks)
    + Live(disp) + Live(procs) + Live(aggs)

\* aggregate_user has been invoked for the owner, or is about to be
AggregationBegun == aggregated.exists \/ aggs # EmptyBag \/ aggQueue > 0

\* ------------------------------------------------------- check_user_status
\* update_item SET summoner_key ...: creates the owner's item when there is
\* none and leaves the attributes of an item that exists
CUS_CachePuuid(r) == IF r.exists THEN r ELSE [NoRow EXCEPT !.exists = TRUE]

\* the 202 answer
CUS_Accepted == [status |-> "processing", match_count |-> 0, kills |-> 0]

\* a 500 answer
CUS_Failed == [status |-> "error", match_count |-> 0, kills |-> 0]

\* (is_processed, aggregated_data) when get_object has answered
check_user_processed(agg) ==
  IF agg.exists
  THEN [status |-> "data", match_count |-> agg.match_count, kills |-> agg.kills]
  ELSE CUS_Accepted

\* a request arrives: the PUUID is looked up (GSI query, account endpoint on
\* a miss) and the mapping is cached with update_item
CUS_Lookup ==
  /\ InFlight < MaxInFlight
  /\ IF AggregationBegun
     THEN repollsLeft > 0 /\ repollsLeft' = repollsLeft - 1 /\ pollsLeft' = pollsLeft
     ELSE pollsLeft > 0 /\ pollsLeft' = pollsLeft - 1 /\ repollsLeft' = repollsLeft
  /\ polls' = Put(polls, [pc |-> "get_object"])
  /\ row' = CUS_CachePuuid(row)
  /\ UNCHANGED << upstream, absent, aggregate_function_name, userQueue,
                  bareMessages, matchQueue, aggQueue, matchCache,
                  matchIndex, details, manifest, aggregated, asks, disp,
                  procs, aggs, lastPoll, lastAsk, asksLeft, dispatchesLeft,
                  dispatched, dups, directs, fails, okProcessed, readbacks,
                  gateSeen, checkSeen, earlyConsume, libraryVars >>

\* the account endpoint fails: 500 (404 for a ValueError), nothing is written
CUS_LookupFails ==
  /\ InFlight < MaxInFlight
  /\ fails < MaxFailures
  /\ fails' = fails + 1
  /\ IF AggregationBegun
     THEN repollsLeft > 0 /\ repollsLeft' = repollsLeft - 1 /\ pollsLeft' = pollsLeft
     ELSE pollsLeft > 0 /\ pollsLeft' = pollsLeft - 1 /\ repollsLeft' = repollsLeft
  /\ lastPoll' = CUS_Failed
  /\ UNCHANGED << upstream, absent, aggregate_function_name, userQueue,
                  bareMessages, matchQueue, aggQueue, matchCache,
                  matchIndex, details, manifest, aggregated, row, polls,
                  asks, disp, procs, aggs, lastAsk, asksLeft,
                  dispatchesLeft, dispatched, dups, directs, okProcessed,
                  readbacks, gateSeen, checkSeen, earlyConsume,
                  libraryVars >>

\* update_item raises: logged, the request goes on without the item
CUS_CacheFails ==
  /\ InFlight < MaxInFlight
  /\ fails < MaxFailures
  /\ fails' = fails + 1
  /\ IF AggregationBegun
     THEN repollsLeft > 0 /\ repollsLeft' = repollsLeft - 1 /\ pollsLeft' = pollsLeft
     ELSE pollsLeft > 0 /\ pollsLeft' = pollsLeft - 1 /\ repollsLeft' = repollsLeft
  /\ polls' = Put(polls, [pc |-> "get_object"])
  /\ UNCHANGED << upstream, absent, aggregate_function_name, userQueue,
                  bareMessages, matchQueue, aggQueue, matchCache,
                  matchIndex, details, manifest, aggregated, row, asks,
                  disp, procs, aggs, lastPoll, lastAsk, asksLeft,
                  dispatchesLeft, dispatched, dups, directs, okProcessed,
                  readbacks, gateSeen, checkSeen, earlyConsume,
                  libraryVars >>

\* check_user_processed, get_object of aggregated.json: the stored aggregate
\* is returned with 200; NoSuchKey goes on to the item
CUS_GetObject ==
  \E r \in Running(polls, {"get_object"}) :
    /\ IF aggregated.exists
       THEN /\ polls' = Take(polls, r)
            /\ lastPoll' = check_user_processed(aggregated)
       ELSE /\ polls' = Replace(polls, r, [pc |-> "get_item"])
            /\ UNCHANGED lastPoll
    /\ UNCHANGED << upstream, absent, aggregate_function_name, userQueue,
                    bareMessages, matchQueue, aggQueue, matchCache,
                    matchIndex, details, manifest, aggregated, row, asks,
                    disp, procs, aggs, lastAsk, pollsLeft, repollsLeft,
                    asksLeft, dispatchesLeft, dispatched, dups, directs,
                    fails, okProcessed, readbacks, gateSeen, checkSeen,
                    earlyConsume, libraryVars >>

\* check_user_processed, get_item: status complete reads the aggregate again,
\* any other item, or none, ends the check with (False, None)
CUS_GetItem ==
  \E r \in Running(polls, {"get_item"}) :
    /\ polls' = Replace(polls, r,
                  [pc |-> IF row.status = "complete" THEN "get_again" ELSE "send"])
    /\ UNCHANGED << upstream, absent, aggregate_function_name, userQueue,
                    bareMessages, matchQueue, aggQueue, matchCache,
                    matchIndex, details, manifest, aggregated, row, asks,
                    disp, procs, aggs, lastPoll, lastAsk, pollsLeft,
                    repollsLeft, asksLeft, dispatchesLeft, dispatched, dups,
                    directs, fails, okProcessed, readbacks, gateSeen,
                    checkSeen, earlyConsume, libraryVars >>

\* check_user_processed, the second get_object of aggregated.json
CUS_GetObjectAgain ==
  \E r \in Running(polls, {"get_again"}) :
    /\ IF aggregated.exists
       THEN /\ polls' = Take(polls, r)
            /\ lastPoll' = check_user_processed(aggregated)
       ELSE /\ polls' = Replace(polls, r, [pc |-> "send"])
            /\ UNCHANGED lastPoll
    /\ UNCHANGED << upstream, absent, aggregate_function_name, userQueue,
                    bareMessages, matchQueue, aggQueue, matchCache,
                    matchIndex, details, manifest, aggregated, row, asks,
                    disp, procs, aggs, lastAsk, pollsLeft, repollsLeft,
                    asksLeft, dispatchesLeft, dispatched, dups, directs,
                    fails, okProcessed, readbacks, gateSeen, checkSeen,
                    earlyConsume, libraryVars >>

\* a read of check_user_processed raises. A ClientError of the first
\* get_object (lines 37-40) is logged and the item is read next; any other
\* exception of it (a BotoCoreError, a body that is no JSON) leaves the inner
\* try for the outer except (lines 65-67), which returns (False, None)
\* without reading the item. get_item's ClientError is logged, the second
\* get_object's exception passed over: (False, None) as well
CUS_ReadFails ==
  \E r \in Running(polls, {"get_object", "get_item", "get_again"}),
     client_error \in BOOLEAN :
    /\ fails < MaxFailures
    /\ fails' = fails + 1
    /\ r.pc # "get_object" => client_error
    /\ polls' = Replace(polls, r,
                  [pc |-> IF r.pc = "get_object" /\ client_error
                          THEN "get_item" ELSE "send"])
    /\ UNCHANGED << upstream, absent, aggregate_function_name, userQueue,
                    bareMessages, matchQueue, aggQueue, matchCache,
                    matchIndex, details, manifest, aggregated, row, asks,
                    disp, procs, aggs, lastPoll, lastAsk, pollsLeft,
                    repollsLeft, asksLeft, dispatchesLeft, dispatched, dups,
                    directs, okProcessed, readbacks, gateSeen, checkSeen,
                    earlyConsume, libraryVars >>

\* queue_user_for_processing: send_message, then 202 "processing"
CUS_QueueUser ==
  \E r \in Running(polls, {"send"}) :
    /\ polls' = Take(polls, r)
    /\ lastPoll' = CUS_Accepted
    /\ userQueue' = userQueue + 1
    /\ dispatched' = dispatched + 1
    /\ UNCHANGED << upstream, absent, aggregate_function_name, bareMessages,
                    matchQueue, aggQueue, matchCache, matchIndex, details,
                    manifest, aggregated, row, asks, disp, procs, aggs,
                    lastAsk, pollsLeft, repollsLeft, asksLeft,
                    dispatchesLeft, dups, directs, fails, okProcessed,
                    readbacks, gateSeen, checkSeen, earlyConsume,
                    libraryVars >>

\* send_message raises: queue_user_for_processing returns False, 500
CUS_SendFails ==
  \E r \in Running(polls, {"send"}) :
    /\ fails < MaxFailures
    /\ fails' = fails + 1
    /\ polls' = Take(polls, r)
    /\ lastPoll' = CUS_Failed
    /\ UNCHANGED << upstream, absent, aggregate_function_name, userQueue,
                    bareMessages, matchQueue, aggQueue, matchCache,
                    matchIndex, details, manifest, aggregated, row, asks,
                    disp, procs, aggs, lastAsk, pollsLeft, repollsLeft,
                    asksLeft, dispatchesLeft, dispatched, dups, directs,
                    okProcessed, readbacks, gateSeen, checkSeen,
                    earlyConsume, libraryVars >>

\* ------------------------------------------------ chat, generate_insights
\* the requests of chat that have an aggregate to read are the bag asks
\* a chat request arrives: get_puuid_from_summoner caches the mapping with
\* update_item; aggregated/{puuid}/aggregated_data.json, which nothing
\* writes, is asked for first
CHAT_Lookup ==
  /\ InFlight < MaxInFlight
  /\ asksLeft > 0
  /\ asksLeft' = asksLeft - 1
  /\ asks' = Put(asks, [fn |-> "chat", pc |-> "get_object"])
  /\ row' = CUS_CachePuuid(row)
  /\ UNCHANGED << upstream, absent, aggregate_function_name, userQueue,
                  bareMessages, matchQueue, aggQueue, matchCache,
                  matchIndex, details, manifest, aggregated, polls, disp,
                  procs, aggs, lastPoll, lastAsk, pollsLeft, repollsLeft,
                  dispatchesLeft, dispatched, dups, directs, fails,
                  okProcessed, readbacks, gateSeen, checkSeen, earlyConsume,
                  libraryVars >>

\* get_secret_value raises: 500 "Failed to retrieve API key" (lines
\* 146-154), nothing is read or written
CHAT_SecretFails ==
  /\ InFlight < MaxInFlight
  /\ asksLeft > 0
  /\ fails < MaxFailures
  /\ fails' = fails + 1
  /\ asksLeft' = asksLeft - 1
  /\ lastAsk' = 500
  /\ UNCHANGED << upstream, absent, aggregate_function_name, userQueue,
                  bareMessages, matchQueue, aggQueue, matchCache,
                  matchIndex, details, manifest, aggregated, row, polls,
                  asks, disp, procs, aggs, lastPoll, pollsLeft, repollsLeft,
                  dispatchesLeft, dispatched, dups, directs, okProcessed,
                  readbacks, gateSeen, checkSeen, earlyConsume,
                  libraryVars >>

\* the account endpoint fails: get_puuid_from_summoner returns None, 404
CHAT_LookupFails ==
  /\ InFlight < MaxInFlight
  /\ asksLeft > 0
  /\ fails < MaxFailures
  /\ fails' = fails + 1
  /\ asksLeft' = asksLeft - 1
  /\ lastAsk' = 404
  /\ UNCHANGED << upstream, absent, aggregate_function_name, userQueue,
                  bareMessages, matchQueue, aggQueue, matchCache,
                  matchIndex, details, manifest, aggregated, row, polls,
                  asks, disp, procs, aggs, lastPoll, pollsLeft, repollsLeft,
                  dispatchesLeft, dispatched, dups, directs, okProcessed,
                  readbacks, gateSeen, checkSeen, earlyConsume,
                  libraryVars >>

\* update_item raises: logged, the request goes on without the item
CHAT_CacheFails ==
  /\ InFlight < MaxInFlight
  /\ asksLeft > 0
  /\ fails < MaxFailures
  /\ fails' = fails + 1
  /\ asksLeft' = asksLeft - 1
  /\ asks' = Put(asks, [fn |-> "chat", pc |-> "get_object"])
  /\ UNCHANGED << upstream, absent, aggregate_function_name, userQueue,
                  bareMessages, matchQueue, aggQueue, matchCache,
                  matchIndex, details, manifest, aggregated, row, polls,
                  disp, procs, aggs, lastPoll, lastAsk, pollsLeft,
                  repollsLeft, dispatchesLeft, dispatched, dups, directs,
                  okProcessed, readbacks, gateSeen, checkSeen, earlyConsume,
                  libraryVars >>

\* a generate_insights request arrives: the string opened at line 112 of
\* its handler.py is never closed, the module is a SyntaxError and has no
\* lambda_handler; the invocation fails on import, nothing is read, queued
\* or answered by the handler
GI_Receive ==
  /\ asksLeft > 0
  /\ asksLeft' = asksLeft - 1
  /\ UNCHANGED << upstream, absent, aggregate_function_name, userQueue,
                  bareMessages, matchQueue, aggQueue, matchCache,
                  matchIndex, details, manifest, aggregated, row, polls,
                  asks, disp, procs, aggs, lastPoll, lastAsk, pollsLeft,
                  repollsLeft, dispatchesLeft, dispatched, dups, directs,
                  fails, okProcessed, readbacks, gateSeen, checkSeen,
                  earlyConsume, libraryVars >>

\* get_object of users/{puuid}/aggregated.json, the legacy location: with
\* the aggregate the request goes on to Bedrock, NoSuchKey goes on to the
\* queue
ASK_GetObject ==
  \E r \in Running(asks, {"get_object"}) :
    /\ IF aggregated.exists
       THEN /\ asks' = Take(asks, r)
            /\ lastAsk' = 200
       ELSE /\ asks' = Replace(asks, r, [r EXCEPT !.pc = "send"])
            /\ UNCHANGED lastAsk
    /\ UNCHANGED << upstream, absent, aggregate_function_name, userQueue,
                    bareMessages, matchQueue, aggQueue, matchCache,
                    matchIndex, details, manifest, aggregated, row, polls,
                    disp, procs, aggs, lastPoll, pollsLeft, repollsLeft,
                    asksLeft, dispatchesLeft, dispatched, dups, directs,
                    fails, okProcessed, readbacks, gateSeen, checkSeen,
                    earlyConsume, libraryVars >>

\* get_object raises another error: the outer handler answers 500
ASK_GetObjectFails ==
  \E r \in Running(asks, {"get_object"}) :
    /\ fails < MaxFailures
    /\ fails' = fails + 1
    /\ asks' = Take(asks, r)
    /\ lastAsk' = 500
    /\ UNCHANGED << upstream, absent, aggregate_function_name, userQueue,
                    bareMessages, matchQueue, aggQueue, matchCache,
                    matchIndex, details, manifest, aggregated, row, polls,
                    disp, procs, aggs, lastPoll, pollsLeft, repollsLeft,
                    asksLeft, dispatchesLeft, dispatched, dups, directs,
                    okProcessed, readbacks, gateSeen, checkSeen,
                    earlyConsume, libraryVars >>

\* send_message of {"puuid": puuid} to the user-processing queue, then 404
ASK_QueueUser ==
  \E r \in Running(asks, {"send"}) :
    /\ asks' = Take(asks, r)
    /\ lastAsk' = 404
    /\ userQueue' = userQueue + 1
    /\ bareMessages' = bareMessages + 1
    /\ UNCHANGED << upstream, absent, aggregate_function_name, matchQueue,
                    aggQueue, matchCache, matchIndex, details, manifest,
                    aggregated, row, polls, disp, procs, aggs, lastPoll,
                    pollsLeft, repollsLeft, asksLeft, dispatchesLeft,
                    dispatched, dups, directs, fails, okProcessed,
                    readbacks, gateSeen, checkSeen, earlyConsume,
                    libraryVars >>

\* send_message raises: logged, 404
ASK_SendFails ==
  \E r \in Running(asks, {"send"}) :
    /\ fails < MaxFailures
    /\ fails' = fails + 1
    /\ asks' = Take(asks, r)
    /\ lastAsk' = 404
    /\ UNCHANGED << upstream, absent, aggregate_function_name, userQueue,
                    bareMessages, matchQueue, aggQueue, matchCache,
                    matchIndex, details, manifest, aggregated, row, polls,
                    disp, procs, aggs, lastPoll, pollsLeft, repollsLeft,
                    asksLeft, dispatchesLeft, dispatched, dups, directs,
                    okProcessed, readbacks, gateSeen, checkSeen,
                    earlyConsume, libraryVars >>

\* ---------------------------------------------------- process_user_matches
NewDispatch == [pc |-> "get_matches", ids |-> << >>, i |-> 0, sent |-> 0,
                wrote |-> FALSE, rowPut |-> FALSE, code |-> 0]

\* the handler returns: only what the invocation did is kept
DispatchDone(d, c) == [d EXCEPT !.pc = "done", !.ids = << >>, !.i = 0, !.code = c]

\* a message with puuid, summoner_name and summoner_tagline is handed over
PUM_Receive ==
  /\ userQueue > bareMessages
  /\ InFlight < MaxInFlight
  /\ dispatchesLeft > 0
  /\ dispatchesLeft' = dispatchesLeft - 1
  /\ userQueue' = userQueue - 1
  /\ disp' = Put(disp, NewDispatch)
  /\ UNCHANGED << upstream, absent, aggregate_function_name, bareMessages,
                  matchQueue, aggQueue, matchCache, matchIndex, details,
                  manifest, aggregated, row, polls, asks, procs, aggs,
                  lastPoll, lastAsk, pollsLeft, repollsLeft, asksLeft,
                  dispatched, dups, directs, fails, okProcessed, readbacks,
                  gateSeen, checkSeen, earlyConsume, libraryVars >>

\* a message without summoner_name or summoner_tagline: "Missing required
\* fields in message", 400, and the message is consumed
PUM_ReceiveBare ==
  /\ bareMessages > 0
  /\ InFlight < MaxInFlight
  /\ userQueue' = userQueue - 1
  /\ bareMessages' = bareMessages - 1
  /\ disp' = Put(disp, DispatchDone(NewDispatch, 400))
  /\ UNCHANGED << upstream, absent, aggregate_function_name, matchQueue,
                  aggQueue, matchCache, matchIndex, details, manifest,
                  aggregated, row, polls, asks, procs, aggs, lastPoll,
                  lastAsk, pollsLeft, repollsLeft, asksLeft, dispatchesLeft,
                  dispatched, dups, directs, fails, okProcessed, readbacks,
                  gateSeen, checkSeen, earlyConsume, libraryVars >>

\* get_secret_from_secrets_manager raises, before the message is parsed: 500
PUM_SecretFails ==
  \E bare \in BOOLEAN :
    /\ IF bare THEN bareMessages > 0 ELSE userQueue > bareMessages
    /\ InFlight < MaxInFlight
    /\ fails < MaxFailures
    /\ fails' = fails + 1
    /\ userQueue' = userQueue - 1
    /\ bareMessages' = IF bare THEN bareMessages - 1 ELSE bareMessages
    /\ disp' = Put(disp, DispatchDone(NewDispatch, 500))
    /\ UNCHANGED << upstream, absent, aggregate_function_name, matchQueue,
                    aggQueue, matchCache, matchIndex, details, manifest,
                    aggregated, row, polls, asks, procs, aggs, lastPoll,
                    lastAsk, pollsLeft, repollsLeft, asksLeft,
                    dispatchesLeft, dispatched, dups, directs, okProcessed,
                    readbacks, gateSeen, checkSeen, earlyConsume,
                    libraryVars >>

\* the paginated listing; with no matches the handler calls
\* store_aggregated_data, a name the module does not define: NameError,
\* caught by the outer handler, 500
PUM_AfterListing(d, match_ids) ==
  IF match_ids = << >>
  THEN DispatchDone(d, 500)
  ELSE [d EXCEPT !.pc = "put_manifest", !.ids = match_ids]

PUM_GetMatches ==
  \E d \in Running(disp, {"get_matches"}) :
    /\ disp' = Replace(disp, d, PUM_AfterListing(d, upstream))
    /\ UNCHANGED << upstream, absent, aggregate_function_name, userQueue,
                    bareMessages, matchQueue, aggQueue, matchCache,
                    matchIndex, details, manifest, aggregated, row, polls,
                    asks, procs, aggs, lastPoll, lastAsk, pollsLeft,
                    repollsLeft, asksLeft, dispatchesLeft, dispatched, dups,
                    directs, fails, okProcessed, readbacks, gateSeen,
                    checkSeen, earlyConsume, libraryVars >>

PUM_GetMatchesFails ==
  \E d \in Running(disp, {"get_matches"}) :
    /\ fails < MaxFailures
    /\ fails' = fails + 1
    /\ disp' = Replace(disp, d, DispatchDone(d, 500))
    /\ UNCHANGED << upstream, absent, aggregate_function_name, userQueue,
                    bareMessages, matchQueue, aggQueue, matchCache,
                    matchIndex, details, manifest, aggregated, row, polls,
                    asks, procs, aggs, lastPoll, lastAsk, pollsLeft,
                    repollsLeft, asksLeft, dispatchesLeft, dispatched, dups,
                    directs, okProcessed, readbacks, gateSeen, checkSeen,
                    earlyConsume, libraryVars >>

\* matches_data written to users/{puuid}/matches.json
PUM_MatchesData(match_ids) ==
  [exists |-> TRUE, match_ids |-> match_ids,
   processed_match_ids |-> << >>, status |-> "queued"]

PUM_PutManifest ==
  \E d \in Running(disp, {"put_manifest"}) :
    /\ manifest' = PUM_MatchesData(d.ids)
    /\ disp' = Replace(disp, d, [d EXCEPT !.pc = "send", !.i = 1, !.wrote = TRUE])
    /\ UNCHANGED << upstream, absent, aggregate_function_name, userQueue,
                    bareMessages, matchQueue, aggQueue, matchCache,
                    matchIndex, details, aggregated, row, polls, asks,
                    procs, aggs, lastPoll, lastAsk, pollsLeft, repollsLeft,
                    asksLeft, dispatchesLeft, dispatched, dups, directs,
                    fails, okProcessed, readbacks, gateSeen, checkSeen,
                    earlyConsume, libraryVars >>

\* put_object raises: nothing catches it before the outer handler, 500
PUM_ManifestWriteSwallowed(d) == [d EXCEPT !.pc = "send", !.i = 1]

PUM_ManifestWriteFailed(d) == DispatchDone(d, 500)

PUM_PutManifestFails ==
  \E d \in Running(disp, {"put_manifest"}) :
    /\ fails < MaxFailures
    /\ fails' = fails + 1
    /\ disp' = Replace(disp, d, PUM_ManifestWriteFailed(d))
    /\ UNCHANGED << upstream, absent, aggregate_function_name, userQueue,
                    bareMessages, matchQueue, aggQueue, matchCache,
                    matchIndex, details, manifest, aggregated, row, polls,
                    asks, procs, aggs, lastPoll, lastAsk, pollsLeft,
                    repollsLeft, asksLeft, dispatchesLeft, dispatched, dups,
                    directs, okProcessed, readbacks, gateSeen, checkSeen,
                    earlyConsume, libraryVars >>

\* a send_message that raises ends the dispatch
PUM_NextMatchAborts(d, queued) ==
  IF queued = 0 THEN DispatchDone(d, 500)
  ELSE [d EXCEPT !.i = d.i + 1,
                 !.sent = d.sent + queued,
                 !.pc = IF d.i + 1 > Len(d.ids) THEN "put_item" ELSE "send"]

\* one turn of "for match_id in all_match_ids"
PUM_NextMatch(d, queued) ==
  [d EXCEPT !.i = d.i + 1,
            !.sent = d.sent + queued,
            !.pc = IF d.i + 1 > Len(d.ids) THEN "put_item" ELSE "send"]

PUM_SendMessage ==
  \E d \in Running(disp, {"send"}) :
    /\ matchQueue' = [matchQueue EXCEPT ![d.ids[d.i]] = @ + 1]
    /\ disp' = Replace(disp, d, PUM_NextMatch(d, 1))
    /\ UNCHANGED << upstream, absent, aggregate_function_name, userQueue,
                    bareMessages, aggQueue, matchCache, matchIndex, details,
                    manifest, aggregated, row, polls, asks, procs, aggs,
                    lastPoll, lastAsk, pollsLeft, repollsLeft, asksLeft,
                    dispatchesLeft, dispatched, dups, directs, fails,
                    okProcessed, readbacks, gateSeen, checkSeen,
                    earlyConsume, libraryVars >>

\* send_message raises: logged, continue
PUM_SendMessageFails ==
  \E d \in Running(disp, {"send"}) :
    /\ fails < MaxFailures
    /\ fails' = fails + 1
    /\ disp' = Replace(disp, d, PUM_NextMatch(d, 0))
    /\ UNCHANGED << upstream, absent, aggregate_function_name, userQueue,
                    bareMessages, matchQueue, aggQueue, matchCache,
                    matchIndex, details, manifest, aggregated, row, polls,
                    asks, procs, aggs, lastPoll, lastAsk, pollsLeft,
                    repollsLeft, asksLeft, dispatchesLeft, dispatched, dups,
                    directs, okProcessed, readbacks, gateSeen, checkSeen,
                    earlyConsume, libraryVars >>

\* put_item replaces the owner's whole item
PUM_StatusItem(match_ids) ==
  [exists |-> TRUE, status |-> "processing",
   total_matches |-> Len(match_ids), processed_count |-> Absent,
   match_count |-> Absent]

PUM_PutItem ==
  \E d \in Running(disp, {"put_item"}) :
    /\ row' = PUM_StatusItem(d.ids)
    /\ disp' = Replace(disp, d, DispatchDone([d EXCEPT !.rowPut = TRUE], 200))
    /\ UNCHANGED << upstream, absent, aggregate_function_name, userQueue,
                    bareMessages, matchQueue, aggQueue, matchCache,
                    matchIndex, details, manifest, aggregated, polls, asks,
                    procs, aggs, lastPoll, lastAsk, pollsLeft, repollsLeft,
                    asksLeft, dispatchesLeft, dispatched, dups, directs,
                    fails, okProcessed, readbacks, gateSeen, checkSeen,
                    earlyConsume, libraryVars >>

\* put_item raises: logged, 200
PUM_PutItemFails ==
  \E d \in Running(disp, {"put_item"}) :
    /\ fails < MaxFailures
    /\ fails' = fails + 1
    /\ disp' = Replace(disp, d, DispatchDone(d, 200))
    /\ UNCHANGED << upstream, absent, aggregate_function_name, userQueue,
                    bareMessages, matchQueue, aggQueue, matchCache,
                    matchIndex, details, manifest, aggregated, row, polls,
                    asks, procs, aggs, lastPoll, lastAsk, pollsLeft,
                    repollsLeft, asksLeft, dispatchesLeft, dispatched, dups,
                    directs, okProcessed, readbacks, gateSeen, checkSeen,
                    earlyConsume, libraryVars >>

\* ------------------------------------------------------------ process_match
\* an earlier invocation of aggregate_user has stored the aggregate and
\* marked the owner complete
Completed == aggregated.exists /\ row.status = "complete"

\* failed: the calls of this invocation that raised; counted: the invocation
\* advanced processed_count; found: what match_exists_in_s3 returned;
\* fetched: the invocation made the upstream request for the match; late:
\* the message was delivered to an owner already complete
NewProc(match_id, is_late) ==
  [m |-> match_id, pc |-> "head", ids |-> << >>, pids |-> << >>, code |-> 0,
   failed |-> {}, counted |-> FALSE, found |-> FALSE, fetched |-> FALSE,
   late |-> is_late]

ProcDone(p, c) == [p EXCEPT !.pc = "done", !.ids = << >>, !.pids = << >>, !.code = c]

\* some dispatcher has written the owner's item
RowInitialized == \E d \in BagToSet(disp) : d.rowPut

\* SQS hands a message to the lambda and deletes it when the handler returns
PM_Receive ==
  \E m \in Matches :
    /\ matchQueue[m] > 0
    /\ InFlight < MaxInFlight
    /\ matchQueue' = [matchQueue EXCEPT ![m] = @ - 1]
    /\ procs' = Put(procs, NewProc(m, Completed))
    /\ earlyConsume' = (earlyConsume \/ ~RowInitialized)
    /\ UNCHANGED << upstream, absent, aggregate_function_name, userQueue,
                    bareMessages, aggQueue, matchCache, matchIndex, details,
                    manifest, aggregated, row, polls, asks, disp, aggs,
                    lastPoll, lastAsk, pollsLeft, repollsLeft, asksLeft,
                    dispatchesLeft, dispatched, dups, directs, fails,
                    okProcessed, readbacks, gateSeen, checkSeen,
                    libraryVars >>

\* at-least-once delivery: the message is handed out and stays visible
PM_ReceiveAgain ==
  \E m \in Matches :
    /\ matchQueue[m] > 0
    /\ InFlight < MaxInFlight
    /\ dups < MaxRedeliver
    /\ dups' = dups + 1
    /\ procs' = Put(procs, NewProc(m, Completed))
    /\ earlyConsume' = (earlyConsume \/ ~RowInitialized)
    /\ UNCHANGED << upstream, absent, aggregate_function_name, userQueue,
                    bareMessages, matchQueue, aggQueue, matchCache,
                    matchIndex, details, manifest, aggregated, row, polls,
                    asks, disp, aggs, lastPoll, lastAsk, pollsLeft,
                    repollsLeft, asksLeft, dispatchesLeft, dispatched,
                    directs, fails, okProcessed, readbacks, gateSeen,
                    checkSeen, libraryVars >>

\* what the event source sees of an invocation that ends in the outer
\* "except Exception": a response, no exception leaves the handler
PM_OuterExcept == [raised |-> FALSE, statusCode |-> 500]

\* the queue after the handler is over: the message is deleted when the
\* handler returned and is visible again when the handler raised
SQS_AfterHandler(q, match_id, outcome) ==
  IF outcome.raised THEN [q EXCEPT ![match_id] = @ + 1] ELSE q

\* head_object on matches/{match_id}.json
match_exists_in_s3(cache, match_id) == match_id \in cache

\* the upstream is asked whatever the cache holds
NeedsFetchAlways(found, loaded) == TRUE

\* lines 267-280: get_match_with_retry is called in the else branch of "if
\* match_exists_in_s3" and in the except clause of the load from S3
NeedsFetch(found, loaded) == ~found \/ ~loaded

\* match_exists_in_s3: a hit goes on to the load of the object, a miss to
\* the upstream
PM_HeadObject ==
  \E p \in Running(procs, {"head"}) :
    LET found == match_exists_in_s3(matchCache, p.m)
    IN /\ procs' = Replace(procs, p,
                     [p EXCEPT !.found = found,
                               !.pc = IF NeedsFetch(found, TRUE)
                                      THEN "fetch" ELSE "load"])
       /\ UNCHANGED << upstream, absent, aggregate_function_name, userQueue,
                       bareMessages, matchQueue, aggQueue, matchCache,
                       matchIndex, details, manifest, aggregated, row,
                       polls, asks, disp, aggs, lastPoll, lastAsk,
                       pollsLeft, repollsLeft, asksLeft, dispatchesLeft,
                       dispatched, dups, directs, fails, okProcessed,
                       readbacks, gateSeen, checkSeen, earlyConsume,
                       libraryVars >>

\* get_secret_from_secrets_manager raises, or head_object raises an error
\* other than 404: 500
PM_HeadObjectFails ==
  \E p \in Running(procs, {"head"}) :
    /\ fails < MaxFailures
    /\ fails' = fails + 1
    /\ procs' = Replace(procs, p,
                  ProcDone([p EXCEPT !.failed = @ \cup {"head"}],
                           PM_OuterExcept.statusCode))
    /\ matchQueue' = SQS_AfterHandler(matchQueue, p.m, PM_OuterExcept)
    /\ UNCHANGED << upstream, absent, aggregate_function_name, userQueue,
                    bareMessages, aggQueue, matchCache, matchIndex, details,
                    manifest, aggregated, row, polls, asks, disp, aggs,
                    lastPoll, lastAsk, pollsLeft, repollsLeft, asksLeft,
                    dispatchesLeft, dispatched, dups, directs, okProcessed,
                    readbacks, gateSeen, checkSeen, earlyConsume,
                    libraryVars >>

\* get_object of the match that head_object found
PM_LoadCached ==
  \E p \in Running(procs, {"load"}) :
    /\ procs' = Replace(procs, p,
                  [p EXCEPT !.pc = IF NeedsFetch(p.found, TRUE)
                                   THEN "fetch" ELSE "put_index"])
    /\ UNCHANGED << upstream, absent, aggregate_function_name, userQueue,
                    bareMessages, matchQueue, aggQueue, matchCache,
                    matchIndex, details, manifest, aggregated, row, polls,
                    asks, disp, aggs, lastPoll, lastAsk, pollsLeft,
                    repollsLeft, asksLeft, dispatchesLeft, dispatched, dups,
                    directs, fails, okProcessed, readbacks, gateSeen,
                    checkSeen, earlyConsume, libraryVars >>

\* get_object of a match that head_object found raises: the except clause
\* fetches the match from the upstream
PM_LoadCachedFails ==
  \E p \in Running(procs, {"load"}) :
    /\ fails < MaxFailures
    /\ fails' = fails + 1
    /\ procs' = Replace(procs, p,
                  [p EXCEPT !.failed = @ \cup {"load"},
                            !.pc = IF NeedsFetch(p.found, FALSE)
                                   THEN "fetch" ELSE "put_index"])
    /\ UNCHANGED << upstream, absent, aggregate_function_name, userQueue,
                    bareMessages, matchQueue, aggQueue, matchCache,
                    matchIndex, details, manifest, aggregated, row, polls,
                    asks, disp, aggs, lastPoll, lastAsk, pollsLeft,
                    repollsLeft, asksLeft, dispatchesLeft, dispatched, dups,
                    directs, okProcessed, readbacks, gateSeen, checkSeen,
                    earlyConsume, libraryVars >>

\* get_match_with_retry returns the match
PM_Fetch ==
  \E p \in Running(procs, {"fetch"}) :
    /\ procs' = Replace(procs, p, [p EXCEPT !.pc = "store_match",
                                            !.fetched = TRUE])
    /\ UNCHANGED << upstream, absent, aggregate_function_name, userQueue,
                    bareMessages, matchQueue, aggQueue, matchCache,
                    matchIndex, details, manifest, aggregated, row, polls,
                    asks, disp, aggs, lastPoll, lastAsk, pollsLeft,
                    repollsLeft, asksLeft, dispatchesLeft, dispatched, dups,
                    directs, fails, okProcessed, readbacks, gateSeen,
                    checkSeen, earlyConsume, libraryVars >>

\* the fetch raised and the handler went on as if it had the match
PM_FetchFailureSwallowed(p) ==
  [p EXCEPT !.pc = "put_index", !.failed = @ \cup {"fetch"},
            !.fetched = TRUE]

\* get_match_with_retry raises: logged, re-raised, caught by the outer
\* handler
PM_FetchFailed(p) ==
  ProcDone([p EXCEPT !.failed = @ \cup {"fetch"}, !.fetched = TRUE],
           PM_OuterExcept.statusCode)

\* the upstream fetch fails (rate-limit retries exhausted or another error)
PM_FetchFails ==
  \E p \in Running(procs, {"fetch"}) :
    /\ fails < MaxFailures
    /\ fails' = fails + 1
    /\ procs' = Replace(procs, p, PM_FetchFailed(p))
    /\ matchQueue' = SQS_AfterHandler(matchQueue, p.m, PM_OuterExcept)
    /\ UNCHANGED << upstream, absent, aggregate_function_name, userQueue,
                    bareMessages, aggQueue, matchCache, matchIndex, details,
                    manifest, aggregated, row, polls, asks, disp, aggs,
                    lastPoll, lastAsk, pollsLeft, repollsLeft, asksLeft,
                    dispatchesLeft, dispatched, dups, directs, okProcessed,
                    readbacks, gateSeen, checkSeen, earlyConsume,
                    libraryVars >>

\* put_object of matches/{match_id}.json
store_match_in_s3(cache, match_id) == cache \cup {match_id}

PM_StoreMatch ==
  \E p \in Running(procs, {"store_match"}) :
    /\ matchCache' = store_match_in_s3(matchCache, p.m)
    /\ procs' = Replace(procs, p, [p EXCEPT !.pc = "put_index"])
    /\ UNCHANGED << upstream, absent, aggregate_function_name, userQueue,
                    bareMessages, matchQueue, aggQueue, matchIndex, details,
                    manifest, aggregated, row, polls, asks, disp, aggs,
                    lastPoll, lastAsk, pollsLeft, repollsLeft, asksLeft,
                    dispatchesLeft, dispatched, dups, directs, fails,
                    okProcessed, readbacks, gateSeen, checkSeen,
                    earlyConsume, libraryVars >>

\* put_object raises: store_match_in_s3 returns False, the handler goes on
PM_StoreMatchFails ==
  \E p \in Running(procs, {"store_match"}) :
    /\ fails < MaxFailures
    /\ fails' = fails + 1
    /\ procs' = Replace(procs, p, [p EXCEPT !.pc = "put_index",
                                            !.failed = @ \cup {"store"}])
    /\ UNCHANGED << upstream, absent, aggregate_function_name, userQueue,
                    bareMessages, matchQueue, aggQueue, matchCache,
                    matchIndex, details, manifest, aggregated, row, polls,
                    asks, disp, aggs, lastPoll, lastAsk, pollsLeft,
                    repollsLeft, asksLeft, dispatchesLeft, dispatched, dups,
                    directs, okProcessed, readbacks, gateSeen, checkSeen,
                    earlyConsume, libraryVars >>

\* a False from store_user_match_details ends the invocation with an error
PM_AfterDetailsChecked(p, stored) ==
  IF stored THEN [p EXCEPT !.pc = "read_list"] ELSE ProcDone(p, 500)

\* the handler does not look at what store_user_match_details returns
PM_AfterDetails(p, stored) == [p EXCEPT !.pc = "read_list"]

\* after update_match_index_table: store_user_match_details makes its
\* put_object only when the owner is among the participants, and else
\* returns False at once
PM_AfterIndex(p) ==
  IF p.m \in absent THEN PM_AfterDetails(p, FALSE)
  ELSE [p EXCEPT !.pc = "put_details"]

\* update_match_index_table: put_item of the match
PM_PutIndex ==
  \E p \in Running(procs, {"put_index"}) :
    /\ matchIndex' = matchIndex \cup {p.m}
    /\ procs' = Replace(procs, p, PM_AfterIndex(p))
    /\ UNCHANGED << upstream, absent, aggregate_function_name, userQueue,
                    bareMessages, matchQueue, aggQueue, matchCache, details,
                    manifest, aggregated, row, polls, asks, disp, aggs,
                    lastPoll, lastAsk, pollsLeft, repollsLeft, asksLeft,
                    dispatchesLeft, dispatched, dups, directs, fails,
                    okProcessed, readbacks, gateSeen, checkSeen,
                    earlyConsume, libraryVars >>

\* put_item raises: update_match_index_table returns False, the handler
\* goes on
PM_PutIndexFails ==
  \E p \in Running(procs, {"put_index"}) :
    /\ fails < MaxFailures
    /\ fails' = fails + 1
    /\ procs' = Replace(procs, p,
                  PM_AfterIndex([p EXCEPT !.failed = @ \cup {"index"}]))
    /\ UNCHANGED << upstream, absent, aggregate_function_name, userQueue,
                    bareMessages, matchQueue, aggQueue, matchCache,
                    matchIndex, details, manifest, aggregated, row, polls,
                    asks, disp, aggs, lastPoll, lastAsk, pollsLeft,
                    repollsLeft, asksLeft, dispatchesLeft, dispatched, dups,
                    directs, okProcessed, readbacks, gateSeen, checkSeen,
                    earlyConsume, libraryVars >>

\* store_user_match_details: no record when the owner is not a participant,
\* else put_object of users/{puuid}/match-details/{match_id}.json
store_user_match_details(recs, match_id) ==
  IF match_id \in absent THEN recs ELSE recs \cup {match_id}

PM_PutDetails ==
  \E p \in Running(procs, {"put_details"}) :
    /\ details' = store_user_match_details(details, p.m)
    /\ procs' = Replace(procs, p, PM_AfterDetails(p, TRUE))
    /\ UNCHANGED << upstream, absent, aggregate_function_name, userQueue,
                    bareMessages, matchQueue, aggQueue, matchCache,
                    matchIndex, manifest, aggregated, row, polls, asks,
                    disp, aggs, lastPoll, lastAsk, pollsLeft, repollsLeft,
                    asksLeft, dispatchesLeft, dispatched, dups, directs,
                    fails, okProcessed, readbacks, gateSeen, checkSeen,
                    earlyConsume, libraryVars >>

\* put_object of the per-owner record raises: store_user_match_details
\* returns False, the handler goes on
PM_StoreDetailsFails ==
  \E p \in Running(procs, {"put_details"}) :
    /\ fails < MaxFailures
    /\ fails' = fails + 1
    /\ procs' = Replace(procs, p,
                  PM_AfterDetails([p EXCEPT !.failed = @ \cup {"details"}],
                                  FALSE))
    /\ UNCHANGED << upstream, absent, aggregate_function_name, userQueue,
                    bareMessages, matchQueue, aggQueue, matchCache,
                    matchIndex, details, manifest, aggregated, row, polls,
                    asks, disp, aggs, lastPoll, lastAsk, pollsLeft,
                    repollsLeft, asksLeft, dispatchesLeft, dispatched, dups,
                    directs, okProcessed, readbacks, gateSeen, checkSeen,
                    earlyConsume, libraryVars >>

\* update_user_matches_list, first half: get_object (NoSuchKey gives [], [])
PM_ReadList ==
  \E p \in Running(procs, {"read_list"}) :
    /\ procs' = Replace(procs, p, [p EXCEPT !.pc = "write_list",
                                            !.ids = manifest.match_ids,
                                            !.pids = manifest.processed_match_ids])
    /\ UNCHANGED << upstream, absent, aggregate_function_name, userQueue,
                    bareMessages, matchQueue, aggQueue, matchCache,
                    matchIndex, details, manifest, aggregated, row, polls,
                    asks, disp, aggs, lastPoll, lastAsk, pollsLeft,
                    repollsLeft, asksLeft, dispatchesLeft, dispatched, dups,
                    directs, fails, okProcessed, readbacks, gateSeen,
                    checkSeen, earlyConsume, libraryVars >>

\* the lists are built from nothing, as after NoSuchKey
update_user_matches_list_fresh(match_ids, processed_match_ids, match_id) ==
  [exists |-> TRUE,
   match_ids |-> << match_id >>,
   processed_match_ids |-> << match_id >>,
   status |-> "none"]

\* update_user_matches_list, second half: put_object of the lists read
update_user_matches_list(match_ids, processed_match_ids, match_id) ==
  [exists |-> TRUE,
   match_ids |-> AppendIfMissing(match_ids, match_id),
   processed_match_ids |-> AppendIfMissing(processed_match_ids, match_id),
   status |-> "none"]

PM_WriteList ==
  \E p \in Running(procs, {"write_list"}) :
    /\ manifest' = update_user_matches_list(p.ids, p.pids, p.m)
    /\ procs' = Replace(procs, p, [p EXCEPT !.pc = "increment",
                                            !.ids = << >>, !.pids = << >>])
    /\ UNCHANGED << upstream, absent, aggregate_function_name, userQueue,
                    bareMessages, matchQueue, aggQueue, matchCache,
                    matchIndex, details, aggregated, row, polls, asks, disp,
                    aggs, lastPoll, lastAsk, pollsLeft, repollsLeft,
                    asksLeft, dispatchesLeft, dispatched, dups, directs,
                    fails, okProcessed, readbacks, gateSeen, checkSeen,
                    earlyConsume, libraryVars >>

\* get_object or put_object of update_user_matches_list raises: the
\* function returns False, the handler goes on
PM_UpdateListFails ==
  \E p \in Running(procs, {"read_list", "write_list"}) :
    /\ fails < MaxFailures
    /\ fails' = fails + 1
    /\ procs' = Replace(procs, p, [p EXCEPT !.pc = "increment",
                                            !.ids = << >>, !.pids = << >>,
                                            !.failed = @ \cup {"list"}])
    /\ UNCHANGED << upstream, absent, aggregate_function_name, userQueue,
                    bareMessages, matchQueue, aggQueue, matchCache,
                    matchIndex, details, manifest, aggregated, row, polls,
                    asks, disp, aggs, lastPoll, lastAsk, pollsLeft,
                    repollsLeft, asksLeft, dispatchesLeft, dispatched, dups,
                    directs, okProcessed, readbacks, gateSeen, checkSeen,
                    earlyConsume, libraryVars >>

\* a lost update: SET processed_count = :inc
increment_processed_count_set(r) ==
  [r EXCEPT !.exists = TRUE, !.processed_count = 1]

\* update_item ADD processed_count 1, ReturnValues ALL_NEW
increment_processed_count_atomic(r) ==
  [r EXCEPT !.exists = TRUE, !.processed_count = AttrN(@) + 1]

\* the gate as an equality test: "processed_count == total_matches"
CompletionGateEquality(processed_count, total_matches) ==
  processed_count = total_matches /\ total_matches > 0

\* "processed_count >= total_matches and total_matches > 0"
CompletionGate(processed_count, total_matches) ==
  processed_count >= total_matches /\ total_matches > 0

\* the invocation after the increment: with the gate open and
\* AGGREGATE_USER_FUNCTION_NAME set it goes on to invoke, else it returns 200
PM_AfterIncrement(p, gate) ==
  IF gate /\ aggregate_function_name # ""
  THEN [p EXCEPT !.pc = "invoke", !.counted = TRUE]
  ELSE ProcDone([p EXCEPT !.counted = TRUE], 200)

\* the atomic add and the gate on the values read back
PM_Increment ==
  \E p \in Running(procs, {"increment"}) :
    LET new == increment_processed_count_atomic(row)
        gate == CompletionGate(AttrN(new.processed_count), AttrN(new.total_matches))
    IN /\ row' = new
       /\ gateSeen' = (gateSeen \/ gate)
       /\ readbacks' = Append(readbacks, AttrN(new.processed_count))
       /\ okProcessed' = okProcessed \cup {p.m}
       /\ procs' = Replace(procs, p, PM_AfterIncrement(p, gate))
       /\ UNCHANGED << upstream, absent, aggregate_function_name, userQueue,
                       bareMessages, matchQueue, aggQueue, matchCache,
                       matchIndex, details, manifest, aggregated, polls,
                       asks, disp, aggs, lastPoll, lastAsk, pollsLeft,
                       repollsLeft, asksLeft, dispatchesLeft, dispatched,
                       dups, directs, fails, checkSeen, earlyConsume,
                       libraryVars >>

\* what the event source sees when the increment raised: the inner "except
\* Exception" logs it and the handler returns 200
PM_IncrementExcept == [raised |-> FALSE, statusCode |-> 200]

\* update_item raises: logged, "match is still processed", 200
PM_IncrementFails ==
  \E p \in Running(procs, {"increment"}) :
    /\ fails < MaxFailures
    /\ fails' = fails + 1
    /\ procs' = Replace(procs, p,
                  ProcDone([p EXCEPT !.failed = @ \cup {"increment"}],
                           PM_IncrementExcept.statusCode))
    /\ matchQueue' = SQS_AfterHandler(matchQueue, p.m, PM_IncrementExcept)
    /\ UNCHANGED << upstream, absent, aggregate_function_name, userQueue,
                    bareMessages, aggQueue, matchCache, matchIndex, details,
                    manifest, aggregated, row, polls, asks, disp, aggs,
                    lastPoll, lastAsk, pollsLeft, repollsLeft, asksLeft,
                    dispatchesLeft, dispatched, dups, directs, okProcessed,
                    readbacks, gateSeen, checkSeen, earlyConsume,
                    libraryVars >>

\* lambda_client.invoke of aggregate_user, InvocationType Event
PM_InvokeAggregate ==
  \E p \in Running(procs, {"invoke"}) :
    /\ aggQueue' = aggQueue + 1
    /\ procs' = Replace(procs, p, ProcDone(p, 200))
    /\ UNCHANGED << upstream, absent, aggregate_function_name, userQueue,
                    bareMessages, matchQueue, matchCache, matchIndex,
                    details, manifest, aggregated, row, polls, asks, disp,
                    aggs, lastPoll, lastAsk, pollsLeft, repollsLeft,
                    asksLeft, dispatchesLeft, dispatched, dups, directs,
                    fails, okProcessed, readbacks, gateSeen, checkSeen,
                    earlyConsume, libraryVars >>

\* invoke raises: "Error triggering aggregation", 200
PM_InvokeFails ==
  \E p \in Running(procs, {"invoke"}) :
    /\ fails < MaxFailures
    /\ fails' = fails + 1
    /\ procs' = Replace(procs, p,
                  ProcDone([p EXCEPT !.failed = @ \cup {"invoke"}], 200))
    /\ UNCHANGED << upstream, absent, aggregate_function_name, userQueue,
                    bareMessages, matchQueue, aggQueue, matchCache,
                    matchIndex, details, manifest, aggregated, row, polls,
                    asks, disp, aggs, lastPoll, lastAsk, pollsLeft,
                    repollsLeft, asksLeft, dispatchesLeft, dispatched, dups,
                    directs, okProcessed, readbacks, gateSeen, checkSeen,
                    earlyConsume, libraryVars >>

\* ----------------------------------------------------------- aggregate_user
\* an earlier invocation has stored the aggregate and marked the owner
\* complete, and nothing else of the pipeline is queued or running
CompleteAtRest ==
  /\ Completed
  /\ userQueue = 0
  /\ \A m \in Matches : matchQueue[m] = 0
  /\ InFlight = 0

\* rerun: the invocation starts from CompleteAtRest; direct: it was invoked
\* with {"puuid": ...} by a caller other than process_match
NewAgg(again, by_hand) ==
  [pc |-> "get_manifest", ids |-> << >>, npids |-> 0, j |-> 0,
   loaded |-> << >>, result |-> "none", rerun |-> again, direct |-> by_hand]

AggDone(a, res) == [a EXCEPT !.pc = "done", !.ids = << >>, !.npids = 0,
                             !.j = 0, !.loaded = << >>, !.result = res]

\* the asynchronous invocation made by process_match starts
AU_Invoke ==
  /\ aggQueue > 0
  /\ InFlight < MaxInFlight
  /\ aggQueue' = aggQueue - 1
  /\ aggs' = Put(aggs, NewAgg(CompleteAtRest, FALSE))
  /\ UNCHANGED << upstream, absent, aggregate_function_name, userQueue,
                  bareMessages, matchQueue, matchCache, matchIndex, details,
                  manifest, aggregated, row, polls, asks, disp, procs,
                  lastPoll, lastAsk, pollsLeft, repollsLeft, asksLeft,
                  dispatchesLeft, dispatched, dups, directs, fails,
                  okProcessed, readbacks, gateSeen, checkSeen, earlyConsume,
                  libraryVars >>

\* a direct invocation with {"puuid": ...}, at any time: a periodic check,
\* or reprocess_all_users for a puuid its table scan found
AU_Direct ==
  /\ directs < MaxDirect
  /\ InFlight < MaxInFlight
  /\ directs' = directs + 1
  /\ aggs' = Put(aggs, NewAgg(CompleteAtRest, TRUE))
  /\ UNCHANGED << upstream, absent, aggregate_function_name, userQueue,
                  bareMessages, matchQueue, aggQueue, matchCache,
                  matchIndex, details, manifest, aggregated, row, polls,
                  asks, disp, procs, lastPoll, lastAsk, pollsLeft,
                  repollsLeft, asksLeft, dispatchesLeft, dispatched, dups,
                  fails, okProcessed, readbacks, gateSeen, checkSeen,
                  earlyConsume, libraryVars >>

\* check_all_matches_processed, get_object of matches.json:
\* NoSuchKey gives (False, [])
AU_GetManifest ==
  \E a \in Running(aggs, {"get_manifest"}) :
    /\ aggs' = Replace(aggs, a,
                 IF manifest.exists
                 THEN [a EXCEPT !.pc = "get_item",
                                !.ids = manifest.match_ids,
                                !.npids = Len(manifest.processed_match_ids)]
                 ELSE AggDone(a, "in_progress"))
    /\ UNCHANGED << upstream, absent, aggregate_function_name, userQueue,
                    bareMessages, matchQueue, aggQueue, matchCache,
                    matchIndex, details, manifest, aggregated, row, polls,
                    asks, disp, procs, lastPoll, lastAsk, pollsLeft,
                    repollsLeft, asksLeft, dispatchesLeft, dispatched, dups,
                    directs, fails, okProcessed, readbacks, gateSeen,
                    checkSeen, earlyConsume, libraryVars >>

\* get_object raises another ClientError: re-raised, caught by the outer
\* handler, 500
AU_GetManifestFails ==
  \E a \in Running(aggs, {"get_manifest"}) :
    /\ fails < MaxFailures
    /\ fails' = fails + 1
    /\ aggs' = Replace(aggs, a, AggDone(a, "error"))
    /\ UNCHANGED << upstream, absent, aggregate_function_name, userQueue,
                    bareMessages, matchQueue, aggQueue, matchCache,
                    matchIndex, details, manifest, aggregated, row, polls,
                    asks, disp, procs, lastPoll, lastAsk, pollsLeft,
                    repollsLeft, asksLeft, dispatchesLeft, dispatched, dups,
                    directs, okProcessed, readbacks, gateSeen, checkSeen,
                    earlyConsume, libraryVars >>

\* a manifest with matches is enough
check_all_matches_processed_any(r, n_match_ids, n_processed) ==
  n_match_ids > 0

\* check_all_matches_processed, the decision: the item when there is one,
\* else the processed_match_ids of matches.json
check_all_matches_processed(r, n_match_ids, n_processed) ==
  IF r.exists
  THEN CompletionGate(AttrN(r.processed_count), AttrN(r.total_matches))
  ELSE n_processed = n_match_ids /\ n_match_ids > 0

\* the invocation after the check
AU_AfterCheck(a, all_processed) ==
  IF all_processed
  THEN [a EXCEPT !.pc = "load", !.j = 1, !.npids = 0]
  ELSE AggDone(a, "in_progress")

AU_GetItem ==
  \E a \in Running(aggs, {"get_item"}) :
    LET all_processed == check_all_matches_processed(row, Len(a.ids), a.npids)
    IN /\ aggs' = Replace(aggs, a, AU_AfterCheck(a, all_processed))
       /\ checkSeen' = (checkSeen \/ (all_processed /\ row.exists))
       /\ UNCHANGED << upstream, absent, aggregate_function_name, userQueue,
                       bareMessages, matchQueue, aggQueue, matchCache,
                       matchIndex, details, manifest, aggregated, row,
                       polls, asks, disp, procs, lastPoll, lastAsk,
                       pollsLeft, repollsLeft, asksLeft, dispatchesLeft,
                       dispatched, dups, directs, fails, okProcessed,
                       readbacks, gateSeen, earlyConsume, libraryVars >>

\* get_item raises: logged, the processed_match_ids of matches.json decide
AU_GetItemFails ==
  \E a \in Running(aggs, {"get_item"}) :
    /\ fails < MaxFailures
    /\ fails' = fails + 1
    /\ aggs' = Replace(aggs, a,
                 AU_AfterCheck(a, check_all_matches_processed(
                                    NoRow, Len(a.ids), a.npids)))
    /\ UNCHANGED << upstream, absent, aggregate_function_name, userQueue,
                    bareMessages, matchQueue, aggQueue, matchCache,
                    matchIndex, details, manifest, aggregated, row, polls,
                    asks, disp, procs, lastPoll, lastAsk, pollsLeft,
                    repollsLeft, asksLeft, dispatchesLeft, dispatched, dups,
                    directs, okProcessed, readbacks, gateSeen, checkSeen,
                    earlyConsume, libraryVars >>

\* MatchDataAggregator over match_data_list, with match_count
MatchDataAggregate(match_data_list) ==
  [exists |-> TRUE, match_count |-> Len(match_data_list),
   kills |-> SumKills(match_data_list)]

\* MatchAnalyzer never sets player_data for a match without the owner:
\* the fold raises AttributeError, caught by the outer handler, 500
AggregateRaises(match_data_list) ==
  \E k \in 1..Len(match_data_list) : match_data_list[k] \in absent

\* load_match_data_from_s3 in the loop: a match that does not load is skipped
load_match_data_from_s3(match_data_list, match_id) ==
  IF match_id \in matchCache THEN Append(match_data_list, match_id)
  ELSE match_data_list

\* after the last match: an empty list stores zeros, else the fold
AU_AfterLoad(a, match_data_list) ==
  IF a.j < Len(a.ids)
  THEN [a EXCEPT !.j = a.j + 1, !.loaded = match_data_list]
  ELSE IF AggregateRaises(match_data_list)
       THEN AggDone(a, "error")
       ELSE [a EXCEPT !.pc = "put_object", !.j = 0, !.ids = << >>,
                      !.loaded = match_data_list]

AU_LoadMatch ==
  \E a \in Running(aggs, {"load"}) :
    /\ aggs' = Replace(aggs, a,
                 AU_AfterLoad(a, load_match_data_from_s3(a.loaded, a.ids[a.j])))
    /\ UNCHANGED << upstream, absent, aggregate_function_name, userQueue,
                    bareMessages, matchQueue, aggQueue, matchCache,
                    matchIndex, details, manifest, aggregated, row, polls,
                    asks, disp, procs, lastPoll, lastAsk, pollsLeft,
                    repollsLeft, asksLeft, dispatchesLeft, dispatched, dups,
                    directs, fails, okProcessed, readbacks, gateSeen,
                    checkSeen, earlyConsume, libraryVars >>

\* get_object of a match raises: logged, continue
AU_LoadMatchFails ==
  \E a \in Running(aggs, {"load"}) :
    /\ fails < MaxFailures
    /\ fails' = fails + 1
    /\ aggs' = Replace(aggs, a, AU_AfterLoad(a, a.loaded))
    /\ UNCHANGED << upstream, absent, aggregate_function_name, userQueue,
                    bareMessages, matchQueue, aggQueue, matchCache,
                    matchIndex, details, manifest, aggregated, row, polls,
                    asks, disp, procs, lastPoll, lastAsk, pollsLeft,
                    repollsLeft, asksLeft, dispatchesLeft, dispatched, dups,
                    directs, okProcessed, readbacks, gateSeen, checkSeen,
                    earlyConsume, libraryVars >>

\* what the handler answers after store_aggregated_data: status complete,
\* or a bare 200 when no match was loaded
AU_Answer(match_data_list) ==
  IF match_data_list = << >> THEN "no_match_data" ELSE "complete"

\* store_aggregated_data, put_object of aggregated.json
AU_PutObject ==
  \E a \in Running(aggs, {"put_object"}) :
    /\ aggregated' = MatchDataAggregate(a.loaded)
    /\ aggs' = Replace(aggs, a, [a EXCEPT !.pc = "put_item"])
    /\ UNCHANGED << upstream, absent, aggregate_function_name, userQueue,
                    bareMessages, matchQueue, aggQueue, matchCache,
                    matchIndex, details, manifest, row, polls, asks, disp,
                    procs, lastPoll, lastAsk, pollsLeft, repollsLeft,
                    asksLeft, dispatchesLeft, dispatched, dups, directs,
                    fails, okProcessed, readbacks, gateSeen, checkSeen,
                    earlyConsume, libraryVars >>

\* the failure of put_object is passed over and put_item follows
AU_PutObjectFailedGoesOn(a) == [a EXCEPT !.pc = "put_item"]

\* put_object raises inside the try of store_aggregated_data: the except
\* clause returns False before put_item, and the handler answers as if it
\* had stored
AU_PutObjectFailed(a) == AggDone(a, AU_Answer(a.loaded))

AU_PutObjectFails ==
  \E a \in Running(aggs, {"put_object"}) :
    /\ fails < MaxFailures
    /\ fails' = fails + 1
    /\ aggs' = Replace(aggs, a, AU_PutObjectFailed(a))
    /\ UNCHANGED << upstream, absent, aggregate_function_name, userQueue,
                    bareMessages, matchQueue, aggQueue, matchCache,
                    matchIndex, details, manifest, aggregated, row, polls,
                    asks, disp, procs, lastPoll, lastAsk, pollsLeft,
                    repollsLeft, asksLeft, dispatchesLeft, dispatched, dups,
                    directs, okProcessed, readbacks, gateSeen, checkSeen,
                    earlyConsume, libraryVars >>

\* store_aggregated_data, put_item: the owner's whole item is replaced
AU_CompleteItem(match_count) ==
  [exists |-> TRUE, status |-> "complete", total_matches |-> Absent,
   processed_count |-> Absent, match_count |-> match_count]

AU_PutItem ==
  \E a \in Running(aggs, {"put_item"}) :
    /\ row' = AU_CompleteItem(Len(a.loaded))
    /\ aggs' = Replace(aggs, a, AggDone(a, AU_Answer(a.loaded)))
    /\ UNCHANGED << upstream, absent, aggregate_function_name, userQueue,
                    bareMessages, matchQueue, aggQueue, matchCache,
                    matchIndex, details, manifest, aggregated, polls, asks,
                    disp, procs, lastPoll, lastAsk, pollsLeft, repollsLeft,
                    asksLeft, dispatchesLeft, dispatched, dups, directs,
                    fails, okProcessed, readbacks, gateSeen, checkSeen,
                    earlyConsume, libraryVars >>

\* put_item raises after the aggregate was written: store_aggregated_data
\* returns False, the item stays, the handler answers as if it had stored
AU_PutItemFails ==
  \E a \in Running(aggs, {"put_item"}) :
    /\ fails < MaxFailures
    /\ fails' = fails + 1
    /\ aggs' = Replace(aggs, a, AggDone(a, AU_Answer(a.loaded)))
    /\ UNCHANGED << upstream, absent, aggregate_function_name, userQueue,
                    bareMessages, matchQueue, aggQueue, matchCache,
                    matchIndex, details, manifest, aggregated, row, polls,
                    asks, disp, procs, lastPoll, lastAsk, pollsLeft,
                    repollsLeft, asksLeft, dispatchesLeft, dispatched, dups,
                    directs, okProcessed, readbacks, gateSeen, checkSeen,
                    earlyConsume, libraryVars >>

\* -------------------------------------------------- make_request_with_retry
\* the responses carry no Retry-After header
NoHeader == -1

\* status codes request_func may answer with
StatusCodes == {200, 429, 404, 500}

Min(a, b) == IF a <= b THEN a ELSE b

\* the backoff without its cap of 60 seconds
BackoffUncapped(delay_ms, n) == delay_ms * Pow2(n)

\* min(base_delay * (2 ** retry_count), 60), in milliseconds
Backoff(delay_ms, n) == Min(delay_ms * Pow2(n), 60000)

\* "if retry_after: delay = int(retry_after)" else the backoff
RetryDelay(header, delay_ms, n) ==
  IF header # NoHeader THEN header * 1000 ELSE Backoff(delay_ms, n)

\* requests.Response.ok, which is also the truth value of a Response
ResponseOk(status) == status < 400

\* "if retry_count < max_retries"
MayRetry(count, limit) == count < limit

\* raise_for_status returns without raising whatever the status
RaisesForStatusNever(status) == FALSE

\* response.raise_for_status() raises requests.HTTPError for an error status
RaisesForStatus(status) == ~ResponseOk(status)

\* the except clause without "if retry_count >= max_retries: raise"
ExceptClauseNoLimit(status, header, delay_ms, count, limit) ==
  IF ResponseOk(status) /\ status # 429 THEN [do |-> "raise", delay |-> 0]
  ELSE [do |-> "sleep",
        delay |-> RetryDelay(IF ResponseOk(status) THEN header ELSE NoHeader,
                             delay_ms, count)]

\* "except requests.HTTPError as e": "if e.response and
\* e.response.status_code != 429: raise" tests the truth value of the
\* response, which is False for every status that raise_for_status raises
\* on; then "if retry_count >= max_retries: raise"; else the sleep, with the
\* Retry-After header read only "if e.response"
ExceptClause(status, header, delay_ms, count, limit) ==
  IF ResponseOk(status) /\ status # 429 THEN [do |-> "raise", delay |-> 0]
  ELSE IF count >= limit THEN [do |-> "raise", delay |-> 0]
  ELSE [do |-> "sleep",
        delay |-> RetryDelay(IF ResponseOk(status) THEN header ELSE NoHeader,
                             delay_ms, count)]

\* a loop without the 429 branch: every error status raises at once
LoopTurnNoRetry(status, header, delay_ms, count, limit) ==
  IF status # 200 /\ RaisesForStatus(status)
  THEN [do |-> "raise", delay |-> 0]
  ELSE [do |-> "return", delay |-> 0]

\* what one turn of the while loop does with the response it gets:
\*   200                      return response
\*   429, retries left        sleep (Retry-After or backoff), retry
\*   429, no retry left       raise_for_status, then the except clause
\*   another status           raise_for_status; a status below 400 does not
\*                            raise and the response is returned; else the
\*                            except clause
LoopTurn(status, header, delay_ms, count, limit) ==
  IF status = 200 THEN [do |-> "return", delay |-> 0]
  ELSE IF status = 429 /\ MayRetry(count, limit)
  THEN [do |-> "sleep", delay |-> RetryDelay(header, delay_ms, count)]
  ELSE IF RaisesForStatus(status)
  THEN ExceptClause(status, header, delay_ms, count, limit)
  ELSE [do |-> "return", delay |-> 0]

\* the turn the running call is about to take
ThisTurn == LoopTurn(responses[calls + 1], retry_after, retry_delay_ms,
                     retry_count, max_retries)

\* response = request_func(); return response
RQ_Return ==
  /\ rq_pc = "loop"
  /\ ThisTurn.do = "return"
  /\ calls' = calls + 1
  /\ response' = responses[calls + 1]
  /\ rq_pc' = "returned"
  /\ UNCHANGED << responses, retry_after, max_retries, retry_delay_ms,
                  retry_count, sleeps, messages, pipelineVars, handlerVars, storeVars, foldVars,
                  minuteVars >>

\* response = request_func(); time.sleep(delay); retry_count += 1
RQ_SleepAndRetry ==
  /\ rq_pc = "loop"
  /\ ThisTurn.do = "sleep"
  /\ calls' = calls + 1
  /\ sleeps' = Append(sleeps, ThisTurn.delay)
  /\ retry_count' = retry_count + 1
  /\ UNCHANGED << rq_pc, responses, retry_after, max_retries,
                  retry_delay_ms, response, messages, pipelineVars, handlerVars, storeVars, foldVars,
                  minuteVars >>

\* response = request_func(); requests.HTTPError leaves the function
RQ_Raise ==
  /\ rq_pc = "loop"
  /\ ThisTurn.do = "raise"
  /\ calls' = calls + 1
  /\ rq_pc' = "raised"
  /\ UNCHANGED << responses, retry_after, max_retries, retry_delay_ms,
                  retry_count, sleeps, response, messages, pipelineVars, handlerVars, storeVars, foldVars,
                  minuteVars >>

\* -------------------------------------------- the match fetch and its errors
\* a message is the sequence of the pieces it is formatted from
ApiKey == "RGAPI-key"
MatchId == "NA1_1"

\* get_match_with_retry calls make_request_with_retry(make_request,
\* max_retries=15, retry_delay_ms=2000)
GetMatchMaxRetries == 15
GetMatchRetryDelayMs == 2000

\* f"https://{routing}.api.riotgames.com/lol/match/v5/matches/{match_id}
\* ?api_key={api_key}", built by make_request of get_match_with_retry and by
\* RiotAPIClient.get_match
MatchPath(routing, match_id, api_key) ==
  << "https://", routing, ".api.riotgames.com/lol/match/v5/matches/",
     match_id, "?api_key=", api_key >>

StatusText(status) ==
  CASE status = 200 -> "200"
    [] status = 429 -> "429"
    [] status = 404 -> "404"
    [] status = 500 -> "500"

\* str(e) of the HTTPError of Response.raise_for_status:
\* f"{status_code} Client Error: {reason} for url: {url}" (Server Error from
\* 500 on)
HTTPErrorMessage(status, url) ==
  << StatusText(status),
     IF status < 500 THEN " Client Error: " ELSE " Server Error: ",
     "reason", " for url: " >> \o url

\* RiotAPIClient.get_match: "status_code = e.response.status_code if
\* e.response else 'unknown'", then f"Riot API error (status {status_code}):
\* Failed to fetch match {match_id}"; the response of an HTTPError is false
SanitizedMessage(status, match_id) ==
  << "Riot API error (status ",
     IF ResponseOk(status) THEN StatusText(status) ELSE "unknown",
     "): Failed to fetch match ", match_id >>

\* process_match, lines 279-285 and 331-335: the HTTPError that leaves
\* get_match_with_retry is printed, re-raised and printed again:
\* print(f"Failed to fetch match {match_id} after retries: {str(e)}"),
\* print(f"Error: {str(e)}") and traceback.print_exc(), whose last line is
\* the exception and its message; the fetch that follows a failed load of
\* the cached object (line 276) is in no inner try: it is not printed by
\* line 284, and print_exc prints the traceback of the load's exception,
\* during whose handling the HTTPError was raised, before that of the
\* HTTPError
PM_LogFetchFailure ==
  /\ rq_pc = "raised"
  /\ rq_pc' = "logged"
  /\ LET err == HTTPErrorMessage(responses[calls],
                                 MatchPath("americas", MatchId, ApiKey))
     IN messages' = messages \cup
          (IF match_object.exists
           THEN { << "Traceback (most recent call last):",
                     "botocore.exceptions.ClientError: ",
                     "An error occurred (", "code",
                     ") when calling the GetObject operation: ", "message" >> }
           ELSE { << "Failed to fetch match ", MatchId,
                     " after retries: " >> \o err })
          \cup { << "Error: " >> \o err,
                 << "Traceback (most recent call last):",
                    "requests.exceptions.HTTPError: " >> \o err }
  /\ UNCHANGED << responses, retry_after, max_retries, retry_delay_ms,
                  retry_count, calls, sleeps, response, pipelineVars, handlerVars, storeVars, foldVars,
                  minuteVars >>

\* RiotAPIClient.get_match: one requests.get, raise_for_status, and the
\* HTTPError replaced by one with the sanitized message
RC_GetMatch ==
  /\ rq_pc = "client"
  /\ calls' = calls + 1
  /\ IF RaisesForStatus(responses[1])
     THEN /\ rq_pc' = "client_raised"
          /\ messages' = messages \cup {SanitizedMessage(responses[1], MatchId)}
          /\ UNCHANGED response
     ELSE /\ rq_pc' = "client_returned"
          /\ response' = responses[1]
          /\ UNCHANGED messages
  /\ UNCHANGED << responses, retry_after, max_retries, retry_delay_ms,
                  retry_count, sleeps, pipelineVars, handlerVars, storeVars, foldVars,
                  minuteVars >>

\* no call of make_request_with_retry is followed
RetryOff ==
  /\ rq_pc = "off"
  /\ responses = << >>
  /\ retry_after = NoHeader
  /\ max_retries = 0
  /\ retry_delay_ms = 0
  /\ retry_count = 0
  /\ calls = 0
  /\ sleeps = << >>
  /\ response = 0
  /\ messages = {}

\* ------------------------------------------------------------- DataStore
\* a JSON scalar: a string or a number
Str(s) == [t |-> "str", s |-> s, i |-> 0]
Int_(i) == [t |-> "int", s |-> "", i |-> i]

\* the dicts given to the DataStore: the pending entry, a finished
\* aggregate, a match payload, the empty dict
Docs ==
  { [status |-> Str("pending"), puuid |-> Str("a")],
    [status |-> Str("done"), puuid |-> Str("a"), matches_found |-> Int_(0)],
    [matchId |-> Str("a"), gameDuration |-> Int_(2)],
    << >> }

\* the ids used as puuid and as match id
Ids == {"a", "b"}

DigitText(i) == CASE i = 0 -> "0" [] i = 1 -> "1" [] i = 2 -> "2"
TextDigit(x) == CASE x = "0" -> 0 [] x = "1" -> 1 [] x = "2" -> 2

\* json.dumps of a dict: each member as its literal, a string in quotes and
\* a number in digits
json_dumps(doc) ==
  [f \in DOMAIN doc |->
     IF doc[f].t = "str" THEN << "\"", doc[f].s, "\"" >>
     ELSE << DigitText(doc[f].i) >>]

\* json.loads of the body: a quoted literal is a string, another a number
json_loads(body) ==
  [f \in DOMAIN body |->
     IF body[f][1] = "\"" THEN Str(body[f][2])
     ELSE Int_(TextDigit(body[f][1]))]

\* every match is kept under one key
MatchKeyShared(match_id) == << "Matches", "/", "match", ".json" >>

\* f"{self.S3_MATCHES_PATH}/{match_id}.json"
MatchKey(match_id) == << "Matches", "/", match_id, ".json" >>

\* f"{self.S3_USERS_PATH}/{puuid}/{self.S3_AGGREGATE_FILENAME}"
AggregateKey(puuid) == << "Users", "/", puuid, "/", "aggregate.json" >>

\* what the DataStore keeps: the payload of a match, the aggregate of an owner
Resources == {"match", "aggregate"} \X Ids

\* the S3 key of a resource
KeyOf(r) == IF r[1] = "match" THEN MatchKey(r[2]) ELSE AggregateKey(r[2])

\* put_object(Key=key, Body=json.dumps(data))
put_object(b, key, data) ==
  [b EXCEPT ![key] = [exists |-> TRUE, body |-> json_dumps(data)]]

\* get_match_data / get_aggregate_data on a key: (found, is_complete, data);
\* NoSuchKey gives (False, False, {}); is_complete is
\* data.get("status", "") == "done" (False for a match)
get_data(b, key, aggregate) ==
  IF ~b[key].exists
  THEN [key |-> key, found |-> FALSE, is_complete |-> FALSE, data |-> << >>]
  ELSE LET data == json_loads(b[key].body)
       IN [key |-> key, found |-> TRUE,
           is_complete |-> /\ aggregate
                           /\ "status" \in DOMAIN data
                           /\ data["status"] = Str("done"),
           data |-> data]

\* DataStore.set_match_data(match_id, match_data)
DS_SetMatchData ==
  \E match_id \in Ids, data \in Docs :
    /\ bucket' = put_object(bucket, MatchKey(match_id), data)
    /\ puts' = [puts EXCEPT ![<< "match", match_id >>] =
                  [done |-> TRUE, data |-> data]]
    /\ UNCHANGED << last_get, pipelineVars, handlerVars, retryVars, foldVars,
                    minuteVars >>

\* DataStore.set_aggregate_data(puuid, data)
DS_SetAggregateData ==
  \E puuid \in Ids, data \in Docs :
    /\ bucket' = put_object(bucket, AggregateKey(puuid), data)
    /\ puts' = [puts EXCEPT ![<< "aggregate", puuid >>] =
                  [done |-> TRUE, data |-> data]]
    /\ UNCHANGED << last_get, pipelineVars, handlerVars, retryVars, foldVars,
                    minuteVars >>

\* DataStore.get_match_data(match_id)
DS_GetMatchData ==
  \E match_id \in Ids :
    /\ last_get' = [of |-> << "match", match_id >>,
                    result |-> get_data(bucket, MatchKey(match_id), FALSE)]
    /\ UNCHANGED << bucket, puts, pipelineVars, handlerVars, retryVars, foldVars,
                    minuteVars >>

\* DataStore.get_aggregate_data(puuid)
DS_GetAggregateData ==
  \E puuid \in Ids :
    /\ last_get' = [of |-> << "aggregate", puuid >>,
                    result |-> get_data(bucket, AggregateKey(puuid), TRUE)]
    /\ UNCHANGED << bucket, puts, pipelineVars, handlerVars, retryVars, foldVars,
                    minuteVars >>

\* an empty bucket (get_object raises NoSuchKey for every key), no call made
StoreOff ==
  /\ bucket = [k \in { KeyOf(r) : r \in Resources } |->
                [exists |-> FALSE, body |-> << >>]]
  /\ last_get = [of |-> << >>, result |-> << >>]
  /\ puts = [r \in Resources |-> [done |-> FALSE, data |-> << >>]]

\* ---------------------------------------------------- MatchDataAggregator
\* Python's float has 53 significant bits
Mantissa == 53

\* a float is a binary number of Mantissa significant bits: the record
\* [m, e] stands for the value of the bits m (most significant first, no
\* leading zero) times 2^e; bits are the numbers 0 and 1, and the operators
\* work on eight of them at a time
RECURSIVE BitsOf(_)
BitsOf(n) == IF n = 0 THEN << >> ELSE Append(BitsOf(n \div 2), n % 2)

RECURSIVE BitsValue(_)
BitsValue(bits) == IF bits = << >> THEN 0
  ELSE 2 * BitsValue(SubSeq(bits, 1, Len(bits) - 1)) + bits[Len(bits)]

Zeros(k) == [i \in 1..k |-> 0]

\* the eight bits of a number below 256
ByteOf(n) == Tail(BitsOf(256 + n))

StripZeros(bits) ==
  IF \A i \in 1..Len(bits) : bits[i] = 0 THEN << >>
  ELSE SubSeq(bits, CHOOSE i \in 1..Len(bits) :
                      bits[i] = 1 /\ \A j \in 1..(i - 1) : bits[j] = 0,
              Len(bits))

\* bits * c + carry for a small c, over a whole number of bytes
RECURSIVE TimesBytes(_, _, _)
TimesBytes(bits, c, carry) ==
  IF bits = << >> THEN BitsOf(carry)
  ELSE LET n == Len(bits)
           v == BitsValue(SubSeq(bits, n - 7, n)) * c + carry
       IN TimesBytes(SubSeq(bits, 1, n - 8), c, v \div 256) \o ByteOf(v % 256)

TimesBits(bits, c, carry) ==
  StripZeros(TimesBytes(Zeros((8 - (Len(bits) % 8)) % 8) \o bits, c, carry))

\* the nearest float to bits * 2^exp (plus a little more when sticky), the
\* even mantissa of two equally near: IEEE 754 round-half-to-even
Float53(bits, exp, sticky) ==
  IF Len(bits) <= Mantissa THEN [m |-> bits, e |-> exp]
  ELSE LET kept == SubSeq(bits, 1, Mantissa)
           rest == SubSeq(bits, Mantissa + 1, Len(bits))
           more == sticky \/ \E i \in 2..Len(rest) : rest[i] = 1
           up == rest[1] = 1 /\ (more \/ kept[Mantissa] = 1)
           m1 == IF up THEN TimesBits(kept, 1, 1) ELSE kept
       IN IF Len(m1) > Mantissa
          THEN [m |-> SubSeq(m1, 1, Mantissa), e |-> exp + Len(rest) + 1]
          ELSE [m |-> m1, e |-> exp + Len(rest)]

\* long division, a byte of the quotient at a time, until the quotient is
\* exact or has more bits than a float keeps
RECURSIVE DivBits(_, _, _, _)
DivBits(bits, r, d, places) ==
  IF Len(bits) > Mantissa \/ r = 0
  THEN [bits |-> bits, r |-> r, places |-> places]
  ELSE DivBits(StripZeros(bits \o ByteOf((r * 256) \div d)),
               (r * 256) % d, d, places + 8)

\* n / d of two ints: Python's true division
TrueDiv(n, d) == LET q == DivBits(BitsOf(n \div d), n % d, d, 0)
                 IN Float53(q.bits, 0 - q.places, q.r # 0)

\* x * c of a float and a small int
FloatMul(x, c) == Float53(TimesBits(x.m, c, 0), x.e, FALSE)

\* round(x, 2) of a float, as a count of hundredths: the decimal with two
\* places nearest to the value of the float itself, the even one of two
\* equally near
Round2(x) ==
  LET p == TimesBits(x.m, 100, 0)
      s == 0 - x.e
  IN IF s <= 0 THEN BitsValue(p \o Zeros(0 - s))
     ELSE LET padded == Zeros(IF s + 1 > Len(p) THEN s + 1 - Len(p) ELSE 0)
                          \o p
              n == Len(padded) - s
              whole == BitsValue(SubSeq(padded, 1, n))
              more == \E i \in (n + 2)..Len(padded) : padded[i] = 1
              up == padded[n + 1] = 1 /\ (more \/ whole % 2 = 1)
          IN IF up THEN whole + 1 ELSE whole

\* the quotient cut after two decimals
calculate_per_minute_truncated(total_, duration) ==
  IF duration = 0 THEN 0 ELSE (total_ * 6000) \div duration

\* _calculate_per_minute, in hundredths: 0.0 for a duration of 0, else
\* round((total / duration_seconds) * 60, 2): the float quotient, its float
\* product with 60, and that float rounded
calculate_per_minute(total_, duration) ==
  IF duration = 0 THEN 0
  ELSE Round2(FloatMul(TrueDiv(total_, duration), 60))

\* one call of _calculate_per_minute
MDA_CalculatePerMinute ==
  /\ pm_pc = "new"
  /\ per_minute' = calculate_per_minute(total, duration_seconds)
  /\ pm_pc' = "done"
  /\ UNCHANGED << total, duration_seconds, pipelineVars, handlerVars, retryVars,
                  storeVars, foldVars >>

\* "(kills + assists) / deaths if deaths > 0 else (kills + assists)", as a
\* fraction
kda_ratio(kills, deaths, assists) ==
  IF deaths > 0 THEN [num |-> kills + assists, den |-> deaths]
  ELSE [num |-> kills + assists, den |-> 1]

RatioLess(a, b) == a.num * b.den < b.num * a.den

\* match_performances: one entry for each match, in the order of the list;
\* the place in the list stands for the match id
match_performances(list) ==
  [i \in 1..Len(list) |->
     [match_id |-> i, champion |-> list[i].champion,
      kda_ratio |-> kda_ratio(list[i].kills, list[i].deaths, list[i].assists),
      kills |-> list[i].kills, deaths |-> list[i].deaths,
      assists |-> list[i].assists, cs |-> list[i].cs,
      vision_score |-> list[i].vision_score, won |-> list[i].won,
      duration |-> list[i].duration]]

\* max keeps the later of two entries with the same key
MaxTakesTies(best, m) == ~RatioLess(m.kda_ratio, best.kda_ratio)

\* max(wins, key=kda_ratio) goes through the list and replaces the entry it
\* holds only by one with a greater key
MaxTakes(best, m) == RatioLess(best.kda_ratio, m.kda_ratio)

\* min(losses, key=kda_ratio): only by one with a smaller key
MinTakes(best, m) == RatioLess(m.kda_ratio, best.kda_ratio)

RECURSIVE PyMax(_, _)
PyMax(best, rest) ==
  IF rest = << >> THEN best
  ELSE PyMax(IF MaxTakes(best, Head(rest)) THEN Head(rest) ELSE best,
             Tail(rest))

RECURSIVE PyMin(_, _)
PyMin(best, rest) ==
  IF rest = << >> THEN best
  ELSE PyMin(IF MinTakes(best, Head(rest)) THEN Head(rest) ELSE best,
             Tail(rest))

\* best_match / worst_match: None
None == [match_id |-> 0, champion |-> "", kills |-> 0, deaths |-> 0,
         assists |-> 0, kda_ratio |-> 0, cs |-> 0, vision_score |-> 0,
         won |-> FALSE]

\* the dict stored as best_match or worst_match; kda_ratio is
\* round(kda_ratio, 2), in hundredths: of the float quotient with a death,
\* of the int kills + assists without one
MatchSummary(m, won) ==
  [match_id |-> m.match_id, champion |-> m.champion, kills |-> m.kills,
   deaths |-> m.deaths, assists |-> m.assists,
   kda_ratio |-> IF m.deaths > 0
                 THEN Round2(TrueDiv(m.kills + m.assists, m.deaths))
                 ELSE (m.kills + m.assists) * 100,
   cs |-> m.cs, vision_score |-> m.vision_score, won |-> won]

\* lines 185-199
best_match(perfs) ==
  LET wins == SelectSeq(perfs, LAMBDA m : m.won)
  IN IF wins = << >> THEN None
     ELSE MatchSummary(PyMax(Head(wins), Tail(wins)), TRUE)

\* lines 201-213
worst_match(perfs) ==
  LET losses == SelectSeq(perfs, LAMBDA m : ~m.won)
  IN IF losses = << >> THEN None
     ELSE MatchSummary(PyMin(Head(losses), Tail(losses)), FALSE)

RECURSIVE Sum(_)
Sum(ns) == IF ns = << >> THEN 0 ELSE Head(ns) + Sum(Tail(ns))

\* a total the loop adds up over the matches: aggregated_data[key] += ...
\* (won counts as 1)
Total(list, key) ==
  Sum([i \in 1..Len(list) |->
         IF key = "won" THEN (IF list[i].won THEN 1 ELSE 0)
         ELSE list[i][key]])

\* the keys a dict gets only under a condition, as key-value pairs
PerMinuteKeys(cs, vision_score, duration) ==
  { << "cs_per_minute", calculate_per_minute(cs, duration) >>,
    << "vision_per_minute", calculate_per_minute(vision_score, duration) >> }

\* lines 155-169: the per-minute keys of a champion's stats are set only
\* 'if stats["duration"] > 0'
ChampionStats(list, champion) ==
  LET mine(m) == m.champion = champion
      played == SelectSeq(list, mine)
  IN [games |-> Len(played), wins |-> Total(played, "won"),
      cs |-> Total(played, "cs"), vision_score |-> Total(played, "vision_score"),
      duration |-> Total(played, "duration"),
      per_minute |-> IF Total(played, "duration") > 0
                     THEN PerMinuteKeys(Total(played, "cs"), Total(played, "vision_score"),
                                        Total(played, "duration"))
                     ELSE {}]

\* lines 171-183: performance_metrics stays {} unless 'total_games > 0 and
\* aggregated_data["match_duration"] > 0'; of its keys the per-minute ones
\* are kept here
performance_metrics(list) ==
  IF Len(list) > 0 /\ Total(list, "duration") > 0
  THEN PerMinuteKeys(Total(list, "cs"), Total(list, "vision_score"), Total(list, "duration"))
  ELSE {}

\* aggregate_match_data: the totals, the champion stats, the performance
\* metrics and the best and worst match
aggregate_match_data(list) ==
  [kills |-> Total(list, "kills"), deaths |-> Total(list, "deaths"),
   assists |-> Total(list, "assists"), cs |-> Total(list, "cs"),
   vision_score |-> Total(list, "vision_score"),
   match_duration |-> Total(list, "duration"),
   won |-> Total(list, "won"), lost |-> Len(list) - Total(list, "won"),
   champion_stats |->
     [c \in { list[i].champion : i \in 1..Len(list) } |->
        ChampionStats(list, c)],
   performance_metrics |-> performance_metrics(list),
   best_match |-> best_match(match_performances(list)),
   worst_match |-> worst_match(match_performances(list))]

\* MatchDataAggregator(puuid, match_data_list)
MDA_Aggregate ==
  /\ agg_pc = "new"
  /\ aggregated_data' = aggregate_match_data(data_list)
  /\ agg_pc' = "done"
  /\ UNCHANGED << data_list, pipelineVars, handlerVars, retryVars, storeVars,
                  minuteVars >>

\* no aggregator is followed
FoldOff ==
  /\ agg_pc = "off"
  /\ data_list = << >>
  /\ aggregated_data = << >>

\* no call of _calculate_per_minute is followed
MinuteOff ==
  /\ pm_pc = "off"
  /\ total = 0
  /\ duration_seconds = 0
  /\ per_minute = 0

\* ------------------------------------ the match cache of process_match
\* the payload the upstream holds for the match
MatchPayload == [matchId |-> Str(MatchId), gameDuration |-> Int_(2)]

\* the body of the upstream's answer: the payload with 200, an error
\* document with another status
ResponseText(status) ==
  IF status = 200 THEN json_dumps(MatchPayload)
  ELSE json_dumps([message |-> Str(StatusText(status))])

\* no object under matches/{match_id}.json (head_object answers 404)
NoObject == [exists |-> FALSE, body |-> << >>]

\* a put_object that raises leaves an object without a body
put_match_object_empty(object, match_data, ok) ==
  [exists |-> TRUE, body |-> IF ok THEN json_dumps(match_data) ELSE << >>]

\* store_match_in_s3: put_object(Key=f"matches/{match_id}.json",
\* Body=json.dumps(match_data)); a put_object that raises is printed and
\* False is returned
put_match_object(object, match_data, ok) ==
  IF ok THEN [exists |-> TRUE, body |-> json_dumps(match_data)] ELSE object

\* get_match_with_retry returns response.json() and the handler stores it
\* (lines 276-277 and 281-282); store_match_in_s3 prints the error of a
\* put_object that raises, print(f"Error storing match in S3: {str(e)}")
\* (lines 48-50), and the handler goes on
PM_StoreFetched ==
  /\ rq_pc = "returned"
  /\ rq_pc' = "stored"
  /\ \E ok \in BOOLEAN :
       /\ match_object' = put_match_object(match_object,
                            json_loads(ResponseText(response)), ok)
       /\ messages' = IF ok THEN messages
                      ELSE messages \cup
                             { << "Error storing match in S3: ",
                                  "An error occurred (", "code",
                                  ") when calling the PutObject operation: ",
                                  "message" >> }
  /\ UNCHANGED << responses, retry_after, max_retries, retry_delay_ms,
                  retry_count, calls, sleeps, response,
                  listingVars, demandVars, pipelineVars, storeVars,
                  foldVars, minuteVars >>

\* ------------------------------------- the listing loop of the dispatcher
\* batch_size = 100
BatchSize == 100

\* client.get_matches(puuid, start=start, count=count): the upstream answers
\* with the ids of its list from offset start on, count of them at most
get_matches(list, offset, count) ==
  SubSeq(list, offset + 1, Min(offset + count, Len(list)))

\* the loop goes on after a page that is not empty
PUM_LastPageEmptyOnly(match_ids, batch_size) == match_ids = << >>

\* "if not match_ids: break" and "if len(match_ids) < batch_size: break"
PUM_LastPage(match_ids, batch_size) ==
  match_ids = << >> \/ Len(match_ids) < batch_size

\* one turn of "while True": a page is asked for and added to
\* all_match_ids, and start moves on unless the page is the last; a request
\* that raises ends the handler with 500
PUM_ListPage ==
  /\ list_pc = "loop"
  /\ pages' = Append(pages, << start, BatchSize >>)
  /\ \E ok \in BOOLEAN :
       LET match_ids == get_matches(listing, start, BatchSize)
       IN IF ~ok
          THEN /\ list_pc' = "failed"
               /\ UNCHANGED << start, all_match_ids >>
          ELSE /\ all_match_ids' = all_match_ids \o match_ids
               /\ IF PUM_LastPage(match_ids, BatchSize)
                  THEN list_pc' = "listed" /\ UNCHANGED start
                  ELSE start' = start + BatchSize /\ UNCHANGED list_pc
  /\ UNCHANGED << listing, match_object, demandVars, pipelineVars,
                  retryVars, storeVars, foldVars, minuteVars >>

\* the listing loop is not followed
ListingOff ==
  /\ list_pc = "off"
  /\ listing = << >>
  /\ start = 0
  /\ all_match_ids = << >>
  /\ pages = << >>

\* no object is followed under matches/{match_id}.json
CacheOff == match_object = NoObject

\* ------------------------------------------- the on-demand aggregator
\* MAX_PENDING_RETRIES = 3
MAX_PENDING_RETRIES == 3

\* the puuid of the summoner every request names
Puuid == "a"

\* pending_data, no_matches_data and aggregated_result (the metadata the
\* handler adds to the aggregate of the matches fetched)
AG_Data(kind) ==
  CASE kind = "pending" ->
         [status |-> Str("pending"), summoner |-> Str("name#tag"),
          region |-> Str("americas"), puuid |-> Str(Puuid)]
    [] kind = "no_matches" ->
         [status |-> Str("done"),
          message |-> Str("No ranked matches found for name#tag"),
          summoner |-> Str("name#tag"), region |-> Str("americas"),
          puuid |-> Str(Puuid), matches_found |-> Int_(0)]
    [] kind = "aggregated" ->
         [status |-> Str("done"), summoner |-> Str("name#tag"),
          region |-> Str("americas"), puuid |-> Str(Puuid)]

\* the request ends with a status code
AG_Return(q, code) == [q EXCEPT !.pc = "done", !.code = code]

\* client = RiotAPIClient(api_key, region=region, data_store=data_store): a
\* TypeError when __init__ has no data_store parameter, caught by the outer
\* except (500); then client.get_puuid, which answers, raises ValueError
\* (404) or raises another exception (500)
AG_NewClient(r) ==
  /\ reqs[r].pc = "new"
  /\ \E outcome \in {"puuid", "not_found", "error"} :
       reqs' = [reqs EXCEPT ![r] =
                  IF "data_store" \notin client_params THEN AG_Return(@, 500)
                  ELSE IF outcome = "puuid" THEN [@ EXCEPT !.pc = "check"]
                  ELSE IF outcome = "not_found" THEN AG_Return(@, 404)
                  ELSE AG_Return(@, 500)]
  /\ UNCHANGED << client_params, listingVars, match_object, pipelineVars,
                  retryVars, storeVars, foldVars, minuteVars >>

\* found, is_complete, cached_data = data_store.get_aggregate_data(puuid):
\* complete data is returned, pending data is waited for, and with no data
\* the request goes on to fetch; a get_object that raises another error
\* than NoSuchKey ends the request with 500
AG_GetAggregate(r) ==
  /\ reqs[r].pc = "check"
  /\ \E ok \in BOOLEAN :
       LET got == get_data(bucket, AggregateKey(Puuid), TRUE)
       IN reqs' = [reqs EXCEPT ![r] =
                     IF ~ok THEN AG_Return(@, 500)
                     ELSE IF got.found /\ got.is_complete
                     THEN AG_Return(@, 200)
                     ELSE IF got.found
                     THEN [@ EXCEPT !.pc = "pending"]
                     ELSE [@ EXCEPT !.pc = "set_pending"]]
  /\ UNCHANGED << client_params, listingVars, match_object, pipelineVars,
                  retryVars, storeVars, foldVars, minuteVars >>

\* one turn of "for retry in range(MAX_PENDING_RETRIES)": sleep, read
\* again, return the data if is_complete; after the last turn the request
\* goes on to recalculate
AG_RetryPending(r) ==
  /\ reqs[r].pc = "pending"
  /\ \E ok \in BOOLEAN :
       LET got == get_data(bucket, AggregateKey(Puuid), TRUE)
       IN reqs' = [reqs EXCEPT ![r] =
                     IF ~ok THEN AG_Return(@, 500)
                     ELSE IF got.is_complete THEN AG_Return(@, 200)
                     ELSE IF @.retries + 1 < MAX_PENDING_RETRIES
                     THEN [@ EXCEPT !.retries = @ + 1]
                     ELSE [@ EXCEPT !.retries = @ + 1, !.pc = "set_pending"]]
  /\ UNCHANGED << client_params, listingVars, match_object, pipelineVars,
                  retryVars, storeVars, foldVars, minuteVars >>

\* data_store.set_aggregate_data(puuid, pending_data); a failure is printed
\* as a warning
AG_SetPending(r) ==
  /\ reqs[r].pc = "set_pending"
  /\ reqs' = [reqs EXCEPT ![r].pc = "get_matches"]
  /\ \E ok \in BOOLEAN :
       bucket' = IF ok
                 THEN put_object(bucket, AggregateKey(Puuid),
                                 AG_Data("pending"))
                 ELSE bucket
  /\ UNCHANGED << last_get, puts, client_params, listingVars, match_object,
                  pipelineVars, retryVars, foldVars, minuteVars >>

\* client.get_matches(puuid, count=10) and client.get_match of each match:
\* the listing fails (500), the player has no ranked match, no match could
\* be fetched (500), or the matches fetched are aggregated
AG_GetMatches(r) ==
  /\ reqs[r].pc = "get_matches"
  /\ \E outcome \in {"list_failed", "no_matches", "no_details",
                      "aggregated"} :
       reqs' = [reqs EXCEPT ![r] =
                  IF outcome \in {"list_failed", "no_details"}
                  THEN AG_Return(@, 500)
                  ELSE [@ EXCEPT !.pc = "store", !.doc = outcome]]
  /\ UNCHANGED << client_params, listingVars, match_object, pipelineVars,
                  retryVars, storeVars, foldVars, minuteVars >>

\* data_store.set_aggregate_data(puuid, ...) of the result with status
\* done: a failure to store the aggregate is printed as a warning, a
\* failure to store no_matches_data reaches the outer except (500)
AG_StoreDone(r) ==
  /\ reqs[r].pc = "store"
  /\ \E ok \in BOOLEAN :
       /\ bucket' = IF ok
                    THEN put_object(bucket, AggregateKey(Puuid),
                                    AG_Data(reqs[r].doc))
                    ELSE bucket
       /\ reqs' = [reqs EXCEPT ![r] =
                     IF ~ok /\ @.doc = "no_matches" THEN AG_Return(@, 500)
                     ELSE AG_Return(@, 200)]
  /\ UNCHANGED << last_get, puts, client_params, listingVars, match_object,
                  pipelineVars, retryVars, foldVars, minuteVars >>

\* no request is made to the on-demand aggregator
DemandOff ==
  /\ client_params = {}
  /\ reqs = << >>

\* no library function and no handler part is followed on its own
LibraryOff ==
  /\ RetryOff /\ StoreOff /\ FoldOff /\ MinuteOff
  /\ ListingOff /\ CacheOff /\ DemandOff

\* ------------------------------------------------------------ specification
\* the pipeline before the first request; requeued: a user-processing
\* message of an earlier check_user_status request is waiting already
PipelineStart(function_names, requeued) ==
  /\ upstream \in { Prefix(k) : k \in 0..MaxMatches }
  /\ absent \in { s \in SUBSET { upstream[k] : k \in 1..Len(upstream) } :
                    Cardinality(s) <= MaxAbsent }
  /\ aggregate_function_name \in function_names
  /\ userQueue = IF requeued THEN 1 ELSE 0
  /\ bareMessages = 0
  /\ matchQueue = [m \in Matches |-> 0]
  /\ aggQueue = 0
  /\ matchCache = {}
  /\ matchIndex = {}
  /\ details = {}
  /\ manifest = NoManifest
  /\ aggregated = NoAggregate
  /\ row = IF requeued THEN CUS_CachePuuid(NoRow) ELSE NoRow
  /\ polls = EmptyBag
  /\ asks = EmptyBag
  /\ disp = EmptyBag
  /\ procs = EmptyBag
  /\ aggs = EmptyBag
  /\ lastPoll = IF requeued THEN CUS_Accepted
                ELSE [status |-> "none", match_count |-> 0, kills |-> 0]
  /\ lastAsk = 0
  /\ pollsLeft = MaxPolls
  /\ repollsLeft = MaxRepolls
  /\ asksLeft = IF requeued THEN 0 ELSE MaxAsks
  /\ dispatchesLeft = IF requeued THEN MaxDispatches + 1 ELSE MaxDispatches
  /\ dispatched = IF requeued THEN 1 ELSE 0
  /\ dups = 0
  /\ directs = 0
  /\ fails = 0
  /\ okProcessed = {}
  /\ readbacks = << >>
  /\ gateSeen = FALSE
  /\ checkSeen = FALSE
  /\ earlyConsume = FALSE
  /\ LibraryOff

\* AGGREGATE_USER_FUNCTION_NAME is set
Init == PipelineStart({"aggregate_user"}, FALSE)

\* AGGREGATE_USER_FUNCTION_NAME is set or not
InitMatchFaults == PipelineStart({"aggregate_user", ""}, FALSE)

\* the steps of check_user_status
NextCheck ==
  \/ CUS_Lookup
  \/ CUS_GetObject
  \/ CUS_GetItem
  \/ CUS_GetObjectAgain
  \/ CUS_QueueUser

\* the steps of chat, and the requests to generate_insights
NextAsk ==
  \/ CHAT_Lookup
  \/ GI_Receive
  \/ ASK_GetObject
  \/ ASK_QueueUser
  \/ PUM_ReceiveBare

\* the steps of process_user_matches, process_match and aggregate_user
NextProcess ==
  \/ PUM_Receive
  \/ PUM_GetMatches
  \/ PUM_PutManifest
  \/ PUM_SendMessage
  \/ PUM_PutItem
  \/ PM_Receive
  \/ PM_HeadObject
  \/ PM_LoadCached
  \/ PM_Fetch
  \/ PM_StoreMatch
  \/ PM_PutIndex
  \/ PM_PutDetails
  \/ PM_ReadList
  \/ PM_WriteList
  \/ PM_Increment
  \/ PM_InvokeAggregate
  \/ AU_Invoke
  \/ AU_GetManifest
  \/ AU_GetItem
  \/ AU_LoadMatch
  \/ AU_PutObject
  \/ AU_PutItem

\* the pipeline driven by check_user_status requests, with redelivered
\* per-match messages and direct invocations of aggregate_user
Next ==
  \/ NextCheck
  \/ NextProcess
  \/ PM_ReceiveAgain
  \/ AU_Direct

\* every call to S3, DynamoDB, SQS, Lambda and the Riot API succeeds
Spec == Init /\ [][Next]_vars

\* a user-processing message is waiting already when the requests start
InitRequeued == PipelineStart({"aggregate_user"}, TRUE)

NextRequeued ==
  \/ NextCheck
  \/ NextProcess

\* the same owner dispatched twice, no failure, no redelivery
SpecRequeued == InitRequeued /\ [][NextRequeued]_vars

\* failing calls of check_user_status, chat and generate_insights
NextRequestFaults ==
  \/ CUS_LookupFails
  \/ CUS_CacheFails
  \/ CUS_ReadFails
  \/ CUS_SendFails
  \/ CHAT_SecretFails
  \/ CHAT_LookupFails
  \/ CHAT_CacheFails
  \/ ASK_GetObjectFails
  \/ ASK_SendFails

\* failing calls of process_user_matches
NextDispatcherFaults ==
  \/ PUM_SecretFails
  \/ PUM_GetMatchesFails
  \/ PUM_PutManifestFails
  \/ PUM_SendMessageFails
  \/ PUM_PutItemFails

\* failing calls of process_match
NextProcessorFaults ==
  \/ PM_HeadObjectFails
  \/ PM_LoadCachedFails
  \/ PM_FetchFails
  \/ PM_StoreMatchFails
  \/ PM_PutIndexFails
  \/ PM_StoreDetailsFails
  \/ PM_UpdateListFails
  \/ PM_IncrementFails
  \/ PM_InvokeFails

\* failing calls of aggregate_user
NextAggregatorFaults ==
  \/ AU_GetManifestFails
  \/ AU_GetItemFails
  \/ AU_LoadMatchFails
  \/ AU_PutObjectFails
  \/ AU_PutItemFails

\* requests of every kind, and every call may fail
NextFaults ==
  \/ Next
  \/ NextAsk
  \/ NextRequestFaults
  \/ NextDispatcherFaults
  \/ NextProcessorFaults
  \/ NextAggregatorFaults

SpecFaults == InitMatchFaults /\ [][NextFaults]_vars

NextFrontFaults ==
  \/ NextCheck
  \/ NextAsk
  \/ NextProcess
  \/ PM_ReceiveAgain
  \/ NextRequestFaults

\* requests of every kind; their calls may fail
SpecFrontFaults == Init /\ [][NextFrontFaults]_vars

NextDispatchFaults ==
  \/ NextCheck
  \/ NextAsk
  \/ NextProcess
  \/ PM_ReceiveAgain
  \/ NextDispatcherFaults

\* requests of every kind; calls of process_user_matches may fail
SpecDispatchFaults == Init /\ [][NextDispatchFaults]_vars

NextMatchFaults ==
  \/ NextCheck
  \/ NextProcess
  \/ PM_ReceiveAgain
  \/ NextProcessorFaults

\* calls of process_match may fail
SpecMatchFaults == InitMatchFaults /\ [][NextMatchFaults]_vars

NextAggregateFaults ==
  \/ NextCheck
  \/ NextProcess
  \/ PM_ReceiveAgain
  \/ AU_Direct
  \/ NextAggregatorFaults

\* calls of aggregate_user may fail
SpecAggregateFaults == Init /\ [][NextAggregateFaults]_vars

\* no request has reached the pipeline
PipelineIdle ==
  /\ upstream = << >>
  /\ absent = {}
  /\ aggregate_function_name = ""
  /\ userQueue = 0
  /\ bareMessages = 0
  /\ matchQueue = [m \in Matches |-> 0]
  /\ aggQueue = 0
  /\ matchCache = {}
  /\ matchIndex = {}
  /\ details = {}
  /\ manifest = NoManifest
  /\ aggregated = NoAggregate
  /\ row = NoRow
  /\ polls = EmptyBag
  /\ asks = EmptyBag
  /\ disp = EmptyBag
  /\ procs = EmptyBag
  /\ aggs = EmptyBag
  /\ lastPoll = [status |-> "none", match_count |-> 0, kills |-> 0]
  /\ lastAsk = 0
  /\ pollsLeft = 0
  /\ repollsLeft = 0
  /\ asksLeft = 0
  /\ dispatchesLeft = 0
  /\ dispatched = 0
  /\ dups = 0
  /\ directs = 0
  /\ fails = 0
  /\ okProcessed = {}
  /\ readbacks = << >>
  /\ gateSeen = FALSE
  /\ checkSeen = FALSE
  /\ earlyConsume = FALSE

\* make_request_with_retry called with some arguments, request_func
\* answering with some sequence of status codes; the pipeline is idle
InitRetry ==
  /\ PipelineIdle
  /\ ListingOff
  /\ CacheOff
  /\ DemandOff
  /\ rq_pc = "loop"
  /\ responses \in [1..(MaxRetries + 1) -> StatusCodes]
  /\ retry_after \in {NoHeader, 0, 7}
  /\ max_retries \in 0..MaxRetries
  /\ retry_delay_ms \in {100, 40000}
  /\ retry_count = 0
  /\ calls = 0
  /\ sleeps = << >>
  /\ response = 0
  /\ messages = {}
  /\ StoreOff
  /\ FoldOff
  /\ MinuteOff

NextRetry ==
  \/ RQ_Return
  \/ RQ_SleepAndRetry
  \/ RQ_Raise

SpecRetry == InitRetry /\ [][NextRetry]_vars

\* the call goes on running until it returns or raises: request_func
\* answers and time.sleep returns
SpecRetryFair == SpecRetry /\ WF_vars(NextRetry)

\* the match fetch of process_match (get_match_with_retry) or of the client
\* (RiotAPIClient.get_match), followed on its own; the upstream answers with
\* a status some number of times, then with another; process_match fetches
\* when the match has no object in the cache, or when the load of its
\* object failed (line 275 has then printed the load's error, which has
\* nothing of the request in it, before the fetch begins)
InitFetch ==
  /\ PipelineIdle
  /\ ListingOff
  /\ DemandOff
  /\ responses \in
       { [i \in 1..(GetMatchMaxRetries + 1) |->
            IF i <= k THEN first ELSE rest] :
         k \in 0..(GetMatchMaxRetries + 1), first \in StatusCodes,
         rest \in StatusCodes }
  /\ retry_after \in {NoHeader, 0}
  /\ \/ /\ rq_pc = "loop"
        /\ max_retries = GetMatchMaxRetries
        /\ retry_delay_ms = GetMatchRetryDelayMs
        /\ match_object \in
             {NoObject, put_match_object(NoObject, MatchPayload, TRUE)}
     \/ /\ rq_pc = "client"
        /\ max_retries = 0
        /\ retry_delay_ms = 0
        /\ match_object = NoObject
  /\ retry_count = 0
  /\ calls = 0
  /\ sleeps = << >>
  /\ response = 0
  /\ messages = {}
  /\ StoreOff
  /\ FoldOff
  /\ MinuteOff

NextFetch ==
  \/ RQ_Return
  \/ RQ_SleepAndRetry
  \/ RQ_Raise
  \/ PM_LogFetchFailure
  \/ PM_StoreFetched
  \/ RC_GetMatch

SpecFetch == InitFetch /\ [][NextFetch]_vars

\* the DataStore on an empty bucket, followed on its own
InitStore ==
  /\ PipelineIdle
  /\ ListingOff
  /\ CacheOff
  /\ DemandOff
  /\ RetryOff
  /\ StoreOff
  /\ FoldOff
  /\ MinuteOff

NextStore ==
  \/ DS_SetMatchData
  \/ DS_SetAggregateData
  \/ DS_GetMatchData
  \/ DS_GetAggregateData

SpecStore == InitStore /\ [][NextStore]_vars

\* a MatchDataAggregator over some list of at most MaxList matches of the
\* owner: kills, deaths and assists with the ratios 1.5, 3.0, 2.0, 2 (no
\* death) and 2.0 again, won or lost, a game of Ahri of ten minutes or a
\* game of Zed with a duration of 0
InitAggregate ==
  /\ PipelineIdle
  /\ ListingOff
  /\ CacheOff
  /\ DemandOff
  /\ RetryOff
  /\ StoreOff
  /\ MinuteOff
  /\ agg_pc = "new"
  /\ data_list \in
       UNION { [1..k ->
                 { [kills |-> kda[1], deaths |-> kda[2], assists |-> kda[3],
                    won |-> won, champion |-> played[1],
                    duration |-> played[2], cs |-> 180, vision_score |-> 20] :
                   kda \in { << 1, 2, 2 >>, << 2, 1, 1 >>, << 1, 1, 1 >>,
                             << 2, 0, 0 >>, << 3, 2, 1 >> },
                   won \in BOOLEAN,
                   played \in { << "Ahri", 600 >>, << "Zed", 0 >> } }] :
               k \in 0..MaxList }
  /\ aggregated_data = << >>

SpecAggregate == InitAggregate /\ [][MDA_Aggregate]_vars

\* one call of _calculate_per_minute with some arguments
InitPerMinute ==
  /\ PipelineIdle
  /\ ListingOff
  /\ CacheOff
  /\ DemandOff
  /\ RetryOff
  /\ StoreOff
  /\ FoldOff
  /\ pm_pc = "new"
  /\ total \in 0..MaxTotal \cup {180}
  /\ duration_seconds \in 0..MaxDuration \cup {600, 800, 2400}
  /\ per_minute = 0

SpecPerMinute == InitPerMinute /\ [][MDA_CalculatePerMinute]_vars

\* the listing loop of process_user_matches over some upstream list of at
\* most MaxListing ids, followed on its own
InitListing ==
  /\ PipelineIdle
  /\ RetryOff /\ StoreOff /\ FoldOff /\ MinuteOff
  /\ CacheOff
  /\ DemandOff
  /\ list_pc = "loop"
  /\ listing \in { Prefix(n) : n \in 0..MaxListing }
  /\ start = 0
  /\ all_match_ids = << >>
  /\ pages = << >>

\* the upstream answers every request, or fails it
SpecListing ==
  InitListing /\ [][PUM_ListPage]_vars /\ WF_vars(PUM_ListPage)

\* MaxRequests requests for one summoner reach the on-demand aggregator
\* while the bucket holds no aggregate (nothing else writes one);
\* RiotAPIClient is the class of lib/riot_api.py, which the handler imports:
\* __init__(self, api_key, region='americas'), line 22
InitOnDemand ==
  /\ PipelineIdle
  /\ RetryOff /\ StoreOff /\ FoldOff /\ MinuteOff
  /\ ListingOff
  /\ CacheOff
  /\ client_params = {"api_key", "region"}
  /\ reqs = [r \in 1..MaxRequests |->
               [pc |-> "new", retries |-> 0, doc |-> "", code |-> 0]]

\* the steps of a request in the order of the handler; with the constructor
\* of lib/riot_api.py a request ends in AG_NewClient and the steps after
\* line 178 are not reached
NextOnDemand ==
  \E r \in DOMAIN reqs :
    \/ AG_NewClient(r)
    \/ AG_GetAggregate(r)
    \/ AG_RetryPending(r)
    \/ AG_SetPending(r)
    \/ AG_GetMatches(r)
    \/ AG_StoreDone(r)

SpecOnDemand == InitOnDemand /\ [][NextOnDemand]_vars


\* ------------------------------------------------------------------ claims
\* nothing is queued and no invocation is running
Quiescent ==
  /\ userQueue = 0
  /\ \A m \in Matches : matchQueue[m] = 0
  /\ aggQueue = 0
  /\ InFlight = 0

\* the fold over every match of the manifest
FullAggregate == MatchDataAggregate(manifest.match_ids)

ManifestProcessed ==
  \A k \in 1..Len(manifest.match_ids) : manifest.match_ids[k] \in okProcessed

\* aggregate_user invocations that went through store_aggregated_data
Stored == { a \in BagToSet(aggs) : a.pc = "done" /\ a.result = "complete" }

StoredCount == BagCardinality([a \in Stored |-> aggs[a]])

\* C1: processed_count never exceeds the number of distinct match ids that
\* were processed successfully, whatever messages are delivered twice.
C1_NoDoubleCounting ==
  AttrN(row.processed_count) <= Cardinality(okProcessed)

\* C2: aggregated.json exists only when every manifest match was processed
\* and is part of the fold, so a poll answers "processing" or returns an
\* aggregate over all manifest matches.
C2_NoPartialAggregate ==
  (directs = 0 /\ fails = 0)
  => /\ aggregated.exists => (ManifestProcessed /\ aggregated = FullAggregate)
     /\ lastPoll.status = "data" => lastPoll = check_user_processed(FullAggregate)

\* C3: one dispatch of N > 0 matches, every message enqueued, delivered once
\* and processed: when the pipeline comes to rest the aggregate is stored and
\* the status is complete.
C3_DispatchCompletes ==
  ( /\ Quiescent
    /\ dispatched = 1 /\ dups = 0 /\ directs = 0 /\ fails = 0
    /\ absent = {} /\ upstream # << >>
    /\ \A d \in BagToSet(disp) : d.code = 200 /\ d.sent = Len(upstream)
    /\ \A p \in BagToSet(procs) : p.code = 200 )
  => (aggregated.exists /\ row.status = "complete")

\* C4: the status is complete only after count >= total > 0 was seen on the
\* item, and once a processor has seen it the pipeline does not come to rest
\* before the status is complete.
C4_CompleteIffObserved ==
  /\ row.status = "complete" => (gateSeen \/ checkSeen)
  /\ (Quiescent /\ gateSeen /\ fails = 0 /\ absent = {})
       => (aggregated.exists /\ row.status = "complete")

\* C5: no per-match message is visible before the dispatcher has written the
\* owner's counter item.
C5_RowBeforeMessages ==
  \A d \in BagToSet(disp) : d.sent > 0 => d.rowPut

\* C6: a dispatcher has written the manifest before it sends a message, a
\* failed manifest write sends nothing, and a visible message finds the full
\* manifest in place.
C6_ManifestBeforeMessages ==
  /\ \A d \in BagToSet(disp) : d.sent > 0 => d.wrote
  /\ (\E m \in Matches : matchQueue[m] > 0)
       => (manifest.exists /\ manifest.match_ids = upstream)

C6_Witness ==
  \E d \in BagToSet(disp) :
    /\ d.wrote /\ d.sent = Len(upstream) /\ d.sent = MaxMatches
    /\ \A m \in Matches : matchQueue[m] > 0

\* C7: with the counter item written before the first message is consumed
\* and not rewritten, and every message delivered once, the values read back
\* by the increments are 1, 2, ..., one each, and the increment that reads N
\* passes the gate.
C7_NoLostIncrement ==
  (~earlyConsume /\ dups = 0 /\ BagCardinality(disp) <= 1)
  => /\ \A k \in 1..Len(readbacks) : readbacks[k] = k
     /\ Len(readbacks) <= Len(upstream)
     /\ (readbacks # << >> /\ Len(readbacks) = Len(upstream)) => gateSeen

C7_Witness ==
  /\ ~earlyConsume /\ dups = 0 /\ BagCardinality(disp) = 1
  /\ Len(readbacks) = MaxMatches
  /\ gateSeen

\* C8: the owner dispatched twice, everything delivered and processed: at
\* rest the aggregate covers all manifest matches and the status is complete.
C8_TwiceCompletes ==
  ( /\ Quiescent
    /\ dispatched = 2 /\ fails = 0 /\ dups = 0
    /\ absent = {} /\ upstream # << >>
    /\ \A d \in BagToSet(disp) : d.code = 200 /\ d.sent = Len(upstream)
    /\ \A p \in BagToSet(procs) : p.code = 200 )
  => (aggregated = FullAggregate /\ row.status = "complete")

\* C9: processed_count of the owner's item never decreases.
C9_CountNeverDecreases ==
  [][AttrN(row'.processed_count) >= AttrN(row.processed_count)]_vars

\* C10: after two or more aggregate_user invocations that both stored, the
\* aggregate is the fold over all manifest matches and the status is complete.
C10_ConcurrentAggregation ==
  (Quiescent /\ StoredCount >= 2 /\ directs = 0 /\ fails = 0 /\ absent = {})
  => (aggregated = FullAggregate /\ row.status = "complete")

\* C11: aggregate_user invoked again after an invocation that stored, with
\* the manifest and the cached matches as they were: the second invocation
\* reports complete too and the stored aggregate is still the fold over the
\* manifest.
C11_AggregateTwiceSame ==
  \A a \in BagToSet(aggs) :
    (a.rerun /\ a.pc = "done" /\ dups = 0 /\ fails = 0 /\ absent = {})
    => (a.result = "complete" /\ aggregated = FullAggregate)

\* C12: a direct invocation for an owner whose aggregation is complete
\* recomputes from the cached matches and stores again: one more invocation
\* went through store_aggregated_data and the status is complete.
C12_DirectReaggregation ==
  \A a \in BagToSet(aggs) :
    (a.rerun /\ a.direct /\ a.pc = "done" /\ fails = 0 /\ absent = {})
    => /\ a \in Stored
       /\ StoredCount >= 2
       /\ row.status = "complete"
       /\ aggregated.exists

\* process_match invocations of B in which the call named c raised
FailedIn(B, c) == { p \in BagToSet(B) : c \in p.failed }

FailedCount(B, c) == BagCardinality([p \in FailedIn(B, c) |-> B[p]])

\* C13: a delivery whose upstream fetch failed is over at once and never
\* advances the counter, and the failing step leaves processed_count, the
\* match cache and the per-owner records as they were and invokes no
\* aggregator.
C13_FetchFailureNoEffect ==
  [][ /\ \A p \in FailedIn(procs', "fetch") : p.pc = "done" /\ ~p.counted
      /\ FailedCount(procs', "fetch") > FailedCount(procs, "fetch")
           => /\ row' = row
              /\ matchCache' = matchCache
              /\ details' = details
              /\ aggQueue' = aggQueue ]_vars

C13_Witness ==
  /\ FailedIn(procs, "fetch") # {}
  /\ ~earlyConsume
  /\ row.total_matches = MaxMatches
  /\ AttrN(row.processed_count) = MaxMatches - 1

\* C14: a delivery in which the store of the match or of the per-owner
\* record failed does not advance the counter and does not end as a success.
C14_StoreFailureNotSwallowed ==
  \A p \in FailedIn(procs, "store") \cup FailedIn(procs, "details") :
    ~p.counted /\ (p.pc = "done" => p.code # 200)

\* C15: the message of a delivery whose fetch failed goes back to the queue
\* and is delivered again: when the pipeline is at rest the match has been
\* processed by a later delivery.
C15_FetchFailureRedelivered ==
  (Quiescent /\ dups = 0)
  => \A p \in FailedIn(procs, "fetch") : p.m \in okProcessed

\* C16: a delivery whose increment failed does not end as a success, and its
\* message is delivered again: at rest a later delivery has counted the
\* match.
C16_IncrementFailureVisible ==
  \A p \in FailedIn(procs, "increment") :
    /\ p.pc = "done" => p.code # 200
    /\ (Quiescent /\ dups = 0)
         => \E q \in BagToSet(procs) : q.m = p.m /\ q.counted

\* C17: a match without the owner among its participants gets no per-owner
\* record, its delivery still advances the counter by one and ends as a
\* success, and the gate is evaluated on the value read back.
C17_OwnerAbsentStillCounts ==
  /\ \A m \in absent : m \notin details
  /\ \A p \in BagToSet(procs) :
       (p.m \in absent /\ p.pc = "done" /\ p.failed = {})
       => (p.counted /\ p.code = 200 /\ p.m \in okProcessed)
  /\ ( /\ absent # {} /\ ~earlyConsume /\ dups = 0 /\ fails = 0
       /\ BagCardinality(disp) <= 1
       /\ readbacks # << >> /\ Len(readbacks) = Len(upstream) )
     => (gateSeen /\ readbacks[Len(readbacks)] = Len(upstream))

C17_Witness ==
  /\ \E p \in BagToSet(procs) : p.m \in absent /\ p.counted
  /\ ~earlyConsume /\ dups = 0
  /\ Len(readbacks) = MaxMatches
  /\ gateSeen

\* C18: one dispatch whose manifest holds a match without the owner, every
\* message delivered once and processed with the counter item in place: at
\* rest the aggregate is stored and the status is complete.
C18_AbsentOwnerCompletes ==
  ( /\ Quiescent
    /\ absent # {}
    /\ dispatched = 1 /\ dups = 0 /\ directs = 0 /\ fails = 0
    /\ ~earlyConsume
    /\ \A d \in BagToSet(disp) : d.code = 200 /\ d.sent = Len(upstream)
    /\ \A p \in BagToSet(procs) : p.code = 200 /\ p.counted
    /\ Len(readbacks) = Len(upstream) )
  => (aggregated.exists /\ row.status = "complete")

\* C19: a dispatcher run for an owner without matches ends without an
\* error, with the aggregate stored as match_count 0 and all sums zero and
\* the status complete.
C19_ZeroMatchesComplete ==
  \A d \in BagToSet(disp) :
    (d.pc = "done" /\ upstream = << >> /\ fails = 0)
    => /\ d.code = 200
       /\ aggregated = MatchDataAggregate(<< >>)
       /\ row.status = "complete"

\* the first k answers of request_func are 429 and the next one is 200
RateLimitedThenOk(k) ==
  /\ \A i \in 1..k : responses[i] = 429
  /\ responses[k + 1] = 200

\* C20: k <= max_retries answers of 429 followed by a 200: the call returns
\* that 200 after k + 1 requests and k sleeps, one sleep after each 429 and
\* none after the 200.
C20_RetryThenSuccess ==
  \A k \in 0..max_retries :
    (rq_pc # "off" /\ RateLimitedThenOk(k))
    => /\ Len(sleeps) = Min(calls, k)
       /\ calls <= k + 1
       /\ rq_pc # "raised"
       /\ rq_pc = "returned" <=> calls = k + 1
       /\ rq_pc = "returned" => response = 200

C20_Witness ==
  /\ rq_pc = "returned"
  /\ RateLimitedThenOk(2)
  /\ retry_delay_ms = 100 /\ retry_after = NoHeader
  /\ max_retries = 2
  /\ calls = 3 /\ response = 200
  /\ sleeps = << 100, 200 >>

\* every answer the running call can get is a 429
AlwaysRateLimited == \A i \in 1..(max_retries + 1) : responses[i] = 429

\* C21: 429 on every attempt: one sleep after each of the first max_retries
\* requests, and after request max_retries + 1 the call raises; it never
\* returns a response.
C21_RetriesExhausted ==
  (rq_pc # "off" /\ AlwaysRateLimited)
  => /\ rq_pc # "returned"
     /\ calls <= max_retries + 1
     /\ Len(sleeps) = Min(calls, max_retries)
     /\ rq_pc = "raised" <=> calls = max_retries + 1

C21_Witness ==
  /\ rq_pc = "raised"
  /\ AlwaysRateLimited
  /\ max_retries = MaxRetries
  /\ calls = MaxRetries + 1
  /\ Len(sleeps) = MaxRetries

\* C22: a first answer with an error status other than 429: the call raises
\* after that one request, without a sleep and without a second request.
C22_OtherErrorFailsAtOnce ==
  (rq_pc # "off" /\ responses[1] \notin {200, 429} /\ ~ResponseOk(responses[1]))
  => /\ sleeps = << >>
     /\ calls <= 1
     /\ calls = 1 => rq_pc = "raised"

\* C29: the sleep after a 429 at attempt n is the Retry-After value in
\* seconds when the header is there, else min(base_delay * 2^n, 60 s);
\* without the header the sleeps never decrease and never exceed 60 s.
C29_SleepDelays ==
  rq_pc # "off" =>
    /\ \A i \in 1..Len(sleeps) :
         responses[i] = 429
         => sleeps[i] = IF retry_after # NoHeader THEN retry_after * 1000
                        ELSE IF retry_delay_ms * Pow2(i - 1) <= 60000
                        THEN retry_delay_ms * Pow2(i - 1) ELSE 60000
    /\ retry_after = NoHeader
         => /\ \A i \in 1..Len(sleeps) : sleeps[i] <= 60000
            /\ \A i \in 2..Len(sleeps) : sleeps[i - 1] <= sleeps[i]

C29_Witness ==
  /\ retry_after = NoHeader
  /\ retry_delay_ms = 40000
  /\ Len(sleeps) = 2
  /\ sleeps = << 40000, 60000 >>
  /\ responses[1] = 429 /\ responses[2] = 429

\* C24: no message that process_match or the Riot API client logs or raises
\* contains the API key.
C24_NoKeyInMessages == \A msg \in messages : ~Contains(msg, ApiKey)

\* some process_match invocation at one of the places pcs takes this step
C28_Leaves(pcs) ==
  \E p \in Running(procs, pcs) : CopiesIn(p, procs') < CopiesIn(p, procs)

\* C28: a process_match invocation goes on to invoke the aggregator exactly
\* when its increment reads back processed_count >= total_matches and
\* total_matches > 0 (an absent total_matches reads as 0), and the
\* aggregator is invoked asynchronously by these invocations only.
C28_GateExactly ==
  [][ /\ (\E p \in Running(procs', {"invoke"}) :
             CopiesIn(p, procs') > CopiesIn(p, procs))
          <=> /\ C28_Leaves({"increment"})
              /\ AttrN(row'.processed_count) >= AttrN(row'.total_matches)
              /\ AttrN(row'.total_matches) > 0
      /\ (aggQueue' > aggQueue) <=> C28_Leaves({"invoke"}) ]_vars

\* two triggers, the second read back a count above the total
C28_Witness ==
  /\ aggQueue = 2
  /\ Len(readbacks) > 0
  /\ AttrN(row.total_matches) > 0
  /\ readbacks[Len(readbacks)] > AttrN(row.total_matches)
  /\ AttrN(row.processed_count) = readbacks[Len(readbacks)]

\* C30: a delivery that found matches/{match_id}.json and loaded it makes no
\* upstream request; a delivery that did not find it makes the request; and
\* a match enters the cache only in a step of a delivery that has fetched it
\* before.
C30_FetchOnlyOnMiss ==
  [][ /\ \A p \in BagToSet(procs') :
           (p.pc \notin {"head", "load", "fetch"} /\ "head" \notin p.failed)
           => /\ (p.found /\ "load" \notin p.failed) => ~p.fetched
              /\ ~p.found => p.fetched
      /\ \A m \in matchCache' \ matchCache :
           \E p \in BagToSet(procs) :
             /\ p.m = m
             /\ p.pc = "store_match"
             /\ p.fetched
             /\ "fetch" \notin p.failed
             /\ CopiesIn(p, procs') < CopiesIn(p, procs) ]_vars

\* one delivery missed, fetched and stored the match; a later delivery of the
\* same match found it and made no request
C30_Witness ==
  \E p, q \in BagToSet(procs) :
    /\ p.m = q.m
    /\ p.m \in matchCache
    /\ ~p.found /\ p.fetched
    /\ p.pc \notin {"head", "load", "fetch", "store_match"}
    /\ p.failed = {}
    /\ q.found /\ ~q.fetched /\ q.pc \notin {"head", "load"}

\* C23: the DataStore is a map: every get of a resource returns found =
\* false and the empty dict exactly when nothing was put for the resource,
\* and else the value of the latest put for it, whatever was put for other
\* resources; and so would a get of any resource after any step.
C23_StoreIsMap ==
  [][ /\ last_get' # last_get
         => /\ last_get'.result.found = puts[last_get'.of].done
            /\ last_get'.result.data = puts[last_get'.of].data
      /\ \A r \in Resources :
           /\ get_data(bucket', KeyOf(r), r[1] = "aggregate").found
                = puts'[r].done
           /\ get_data(bucket', KeyOf(r), r[1] = "aggregate").data
                = puts'[r].data ]_vars

\* a get of one match after puts of different values for it and for another
\* match, with a resource never put
C23_Witness ==
  /\ last_get.of = << "match", "a" >>
  /\ last_get.result.found
  /\ last_get.result.data = [matchId |-> Str("a"), gameDuration |-> Int_(2)]
  /\ puts[<< "match", "a" >>].data = last_get.result.data
  /\ puts[<< "match", "b" >>].done
  /\ puts[<< "match", "b" >>].data # last_get.result.data
  /\ ~puts[<< "aggregate", "a" >>].done

\* the ratio of the match at place i of the list is below that at place j
C25_Below(list, i, j) ==
  (list[i].kills + list[i].assists)
    * (IF list[j].deaths > 0 THEN list[j].deaths ELSE 1)
  < (list[j].kills + list[j].assists)
    * (IF list[i].deaths > 0 THEN list[i].deaths ELSE 1)

\* C25: best_match is the first won match that no won match beats,
\* worst_match the first lost match that no lost match undercuts, by the
\* ratio (kills + assists) / deaths, or kills + assists without a death;
\* without a won (lost) match best_match (worst_match) is None; won matches
\* with the ratios 1.5, 3.0, 2.0 give the second as best.
C25_BestWorst ==
  agg_pc = "done" =>
    LET list == data_list
        Won == { i \in 1..Len(list) : list[i].won }
        Lost == { i \in 1..Len(list) : ~list[i].won }
        best == aggregated_data.best_match
        worst == aggregated_data.worst_match
    IN /\ Won = {} => best = None
       /\ Won # {} =>
            /\ best.match_id \in Won
            /\ best.won
            /\ best.kills = list[best.match_id].kills
            /\ \A j \in Won : ~C25_Below(list, best.match_id, j)
            /\ \A j \in Won : j < best.match_id
                               => C25_Below(list, j, best.match_id)
       /\ Lost = {} => worst = None
       /\ Lost # {} =>
            /\ worst.match_id \in Lost
            /\ ~worst.won
            /\ worst.kills = list[worst.match_id].kills
            /\ \A j \in Lost : ~C25_Below(list, j, worst.match_id)
            /\ \A j \in Lost : j < worst.match_id
                                => C25_Below(list, worst.match_id, j)
       /\ ( /\ Len(list) = 3
            /\ Lost = {}
            /\ << list[1].kills, list[1].deaths, list[1].assists >> = << 1, 2, 2 >>
            /\ << list[2].kills, list[2].deaths, list[2].assists >> = << 2, 1, 1 >>
            /\ << list[3].kills, list[3].deaths, list[3].assists >> = << 1, 1, 1 >> )
          => best.match_id = 2 /\ worst = None

\* three won matches with the same ratio, no lost match: the first is best
C25_Witness ==
  /\ agg_pc = "done"
  /\ Len(data_list) = 3
  /\ \A i \in 1..3 : data_list[i].won
  /\ << data_list[1].kills, data_list[1].deaths >> = << 1, 1 >>
  /\ << data_list[2].kills, data_list[2].deaths >> = << 2, 0 >>
  /\ << data_list[3].kills, data_list[3].deaths >> = << 3, 2 >>
  /\ aggregated_data.best_match.match_id = 1
  /\ aggregated_data.worst_match = None

\* the duration is a power of two: the quotient and its product with 60
\* have no rounding error
C26_Exact(duration) == \E k \in 0..duration : BitsOf(duration) = << 1 >> \o Zeros(k)

\* C26: _calculate_per_minute returns 0.0 for a duration of 0 and else a
\* hundredth nearest to total / duration_seconds * 60; of two equally near
\* it is the even one when the floats are exact; 180 over 600 seconds gives
\* 18.0.
C26_PerMinute ==
  pm_pc = "done" =>
    /\ duration_seconds = 0 => per_minute = 0
    /\ duration_seconds > 0 =>
         LET off == per_minute * duration_seconds - total * 6000
             dist == IF off < 0 THEN 0 - off ELSE off
         IN /\ 2 * dist <= duration_seconds
            /\ (2 * dist = duration_seconds /\ C26_Exact(duration_seconds))
                 => per_minute % 2 = 0
    /\ (total = 180 /\ duration_seconds = 600) => per_minute = 1800

\* 7 over 32 seconds is 13.125 a minute: 13.12
C26_Witness ==
  /\ pm_pc = "done"
  /\ total = 7
  /\ duration_seconds = 32
  /\ per_minute = 1312

\* the value under a key of a dict of key-value pairs, if there is one
C27_Has(dict, key, value) == << key, value >> \in dict

\* C27: when the total duration is 0, overall or for a champion,
\* cs_per_minute and vision_per_minute are in the dict with the value 0.0.
C27_ZeroDurationRates ==
  agg_pc = "done" =>
    /\ aggregated_data.match_duration = 0
         => /\ C27_Has(aggregated_data.performance_metrics, "cs_per_minute", 0)
            /\ C27_Has(aggregated_data.performance_metrics, "vision_per_minute", 0)
    /\ \A c \in DOMAIN aggregated_data.champion_stats :
         aggregated_data.champion_stats[c].duration = 0
         => /\ C27_Has(aggregated_data.champion_stats[c].per_minute,
                       "cs_per_minute", 0)
            /\ C27_Has(aggregated_data.champion_stats[c].per_minute,
                       "vision_per_minute", 0)

\* C32: a dispatcher that wrote the manifest ends with 200 whatever sends
\* failed: every match id whose send did not fail got its message, and the
\* counter item it writes carries total_matches = the size of the manifest.
C32_EnqueueFailureSkipped ==
  [][ \A d \in BagToSet(disp') :
        (d.pc = "done" /\ d.wrote /\ CopiesIn(d, disp') > CopiesIn(d, disp))
        => /\ d.code = 200
           /\ d.sent <= Len(manifest.match_ids)
           /\ d.sent >= Len(manifest.match_ids) - fails'
           /\ fails' = fails => d.rowPut
           /\ d.rowPut => /\ row'.status = "processing"
                          /\ row'.total_matches = Len(manifest.match_ids) ]_vars

\* the send of the first match failed, the others are in the queue, the
\* item is written with the full total
C32_Witness ==
  /\ Len(upstream) = MaxMatches
  /\ fails = 1
  /\ procs = EmptyBag
  /\ matchQueue = [m \in Matches |-> IF m = 1 THEN 0 ELSE 1]
  /\ row.total_matches = MaxMatches
  /\ \E d \in BagToSet(disp) :
       /\ d.pc = "done" /\ d.wrote /\ d.rowPut /\ d.code = 200
       /\ d.sent = MaxMatches - 1

\* C34: once users/{puuid}/matches.json exists, only a dispatcher writes it:
\* no step of process_match or aggregate_user changes the object.
C34_ManifestReadOnly ==
  [][ (manifest.exists /\ manifest' # manifest) => disp' # disp ]_vars

\* the ids of the list are those of the upstream listing, in its order
C35_InOrder(list) ==
  list = SelectSeq(upstream, LAMBDA m : Contains(list, m))

\* C35: whatever process_match invocations interleave, match_ids of
\* matches.json is the list the dispatcher wrote and no step changes it, and
\* aggregate_user reads that list and loads the matches in its order.
C35_MatchIdsPreserved ==
  [][ /\ manifest'.exists => manifest'.match_ids = upstream
      /\ manifest.exists => manifest'.match_ids = manifest.match_ids
      /\ \A a \in BagToSet(aggs') :
           /\ a.pc \in {"get_item", "load"} => a.ids = upstream
           /\ C35_InOrder(a.loaded) ]_vars

\* two invocations for different matches have written the list, one entry
\* of processed_match_ids is lost, match_ids is whole
C35_Witness ==
  /\ Len(upstream) = MaxMatches
  /\ manifest.match_ids = upstream
  /\ Len(manifest.processed_match_ids) = 1
  /\ \E p, q \in BagToSet(procs) :
       /\ p.m # q.m
       /\ p.pc \in {"increment", "invoke", "done"} /\ p.failed = {}
       /\ q.pc \in {"increment", "invoke", "done"} /\ q.failed = {}

\* C36: no step of a process_match invocation whose message was delivered
\* after the aggregate was stored and the status set to complete (a late or
\* duplicate delivery) takes the status away from complete, changes the
\* stored aggregate or invokes aggregate_user.
C36_LateDeliveryHarmless ==
  [][ \A p \in BagToSet(procs) :
        (p.late /\ CopiesIn(p, procs') < CopiesIn(p, procs))
        => /\ row.status = "complete" => row'.status = "complete"
           /\ aggregated' = aggregated
           /\ aggQueue' = aggQueue ]_vars

\* the invocation a takes this step and ends it with the in_progress answer
C37_AnswersInProgress(a) ==
  /\ CopiesIn(a, aggs') < CopiesIn(a, aggs)
  /\ \E b \in BagToSet(aggs') :
       /\ b.pc = "done" /\ b.result = "in_progress"
       /\ b.rerun = a.rerun /\ b.direct = a.direct
       /\ CopiesIn(b, aggs') > CopiesIn(b, aggs)

\* C37: an aggregate_user invocation that finds no manifest, or an item
\* with processed_count < total_matches or total_matches = 0, answers
\* in_progress at that step, and no step of its check writes
\* aggregated.json or the owner's item.
C37_NotReadyNoWrite ==
  [][ \A a \in BagToSet(aggs) :
        (a.pc \in {"get_manifest", "get_item"}
         /\ CopiesIn(a, aggs') < CopiesIn(a, aggs))
        => /\ aggregated' = aggregated
           /\ row' = row
           /\ (a.pc = "get_manifest" /\ ~manifest.exists)
                => C37_AnswersInProgress(a)
           /\ ( /\ a.pc = "get_item"
                /\ row.exists
                /\ \/ AttrN(row.processed_count) < AttrN(row.total_matches)
                   \/ AttrN(row.total_matches) = 0 )
                => C37_AnswersInProgress(a) ]_vars

\* an invocation answered in_progress on an item with fewer matches
\* processed than the total, and nothing is stored
C37_Witness ==
  /\ \E a \in BagToSet(aggs) : a.pc = "done" /\ a.result = "in_progress"
  /\ BagCardinality(aggs) = 1
  /\ row.status = "processing"
  /\ AttrN(row.total_matches) = MaxMatches
  /\ AttrN(row.processed_count) = MaxMatches - 1
  /\ ~aggregated.exists

\* C38: whenever the owner's item says complete, aggregated.json exists;
\* and the step in which the put_object of the aggregate fails changes
\* neither the item nor the object.
C38_CompleteHasAggregate ==
  [][ /\ row'.status = "complete" => aggregated'.exists
      /\ ( /\ fails' > fails
           /\ \E a \in Running(aggs, {"put_object"}) :
                CopiesIn(a, aggs') < CopiesIn(a, aggs) )
         => (row' = row /\ aggregated' = aggregated) ]_vars

\* the put_object of one invocation has failed: the invocation has answered,
\* no aggregate is stored and the status is as it was; a second invocation
\* is about to store
C38_Witness ==
  /\ Len(upstream) = 1
  /\ fails = 1 /\ dups = 0
  /\ StoredCount = 1
  /\ row.status = "processing"
  /\ ~aggregated.exists
  /\ Running(aggs, {"put_object"}) # {}

\* C40: whatever request_func answers, the call makes at most max_retries + 1
\* requests and at most max_retries sleeps, and it ends: it returns a
\* response or raises.
C40_Terminates ==
  /\ [](rq_pc # "off" => /\ calls <= max_retries + 1
                         /\ Len(sleeps) <= max_retries
                         /\ Len(sleeps) = retry_count)
  /\ <>(rq_pc \in {"returned", "raised"})

\* a 429, a 500 and a 404 use up the retries
C40_Witness ==
  /\ rq_pc \in {"returned", "raised"}
  /\ max_retries = MaxRetries
  /\ responses[1] = 429 /\ responses[2] = 500
  /\ \A i \in 3..MaxRetries : responses[i] = 404
  /\ calls = MaxRetries + 1
  /\ Len(sleeps) = MaxRetries

\* C33: the listing loop asks for pages of 100 at the offsets 0, 100, 200,
\* ...; every page before the last one asked for held 100 ids, and the loop
\* stops at the first page that is empty or shorter than 100; what it has
\* gathered is then the whole upstream list in its order, which is the
\* match_ids of the manifest; and the loop ends for every finite list.
C33_Pagination ==
  /\ [](list_pc # "off" =>
         /\ \A i \in 1..Len(pages) : pages[i] = << 100 * (i - 1), 100 >>
         /\ \A i \in 1..(Len(pages) - 1) : 100 * i <= Len(listing)
         /\ list_pc = "loop" =>
              /\ start = 100 * Len(pages)
              /\ 100 * Len(pages) <= Len(listing)
              /\ all_match_ids = SubSeq(listing, 1, 100 * Len(pages))
         /\ list_pc = "listed" =>
              /\ Len(listing) < 100 * Len(pages)
              /\ all_match_ids = listing
              /\ PUM_MatchesData(all_match_ids).match_ids = listing)
  /\ <>(list_pc \in {"listed", "failed"})

\* a list of exactly two full pages has been listed with a third, empty page
C33_Witness ==
  /\ list_pc = "listed"
  /\ Len(listing) = 200
  /\ pages = << << 0, 100 >>, << 100, 100 >>, << 200, 100 >> >>
  /\ all_match_ids = listing

\* C31: matches/{match_id}.json is written only in the step that stores the
\* answer of a fetch that returned with status 200, and what is written is
\* the payload of that answer; a fetch that fails leaves the object as it
\* was, absent or present; and an object that is present keeps its value
\* while the upstream answers with the same payload.
C31_CacheHoldsPayload ==
  [][ /\ match_object' # match_object =>
           /\ rq_pc = "returned" /\ rq_pc' = "stored"
           /\ response = 200
           /\ match_object'.exists
           /\ json_loads(match_object'.body) = MatchPayload
           /\ match_object'.body = ResponseText(response)
      /\ rq_pc' \in {"raised", "logged"} => match_object' = match_object
      /\ match_object.exists => match_object' = match_object ]_vars

\* the fetch was answered 429, then 200, and the payload has been stored
C31_Witness ==
  /\ rq_pc = "stored"
  /\ responses[1] = 429
  /\ response = 200
  /\ calls >= 2
  /\ match_object = [exists |-> TRUE, body |-> json_dumps(MatchPayload)]
  /\ messages = {}

====
